---- MODULE Spec2Model ----
(***************************************************************************)
(* Model of the OSMWaySnap pointer interaction (src/src/interaction.ts)    *)
(* and of the line-string utilities it uses (src/unnamed/part_006).        *)
(*                                                                         *)
(* A coordinate is a tuple <<x, y>> of integers; the empty tuple <<>>      *)
(* stands for the empty array that getLastCoordinate() returns on a        *)
(* geometry without vertices.  A line string is a sequence of coordinates. *)
(* An optional value is a sequence of length 0 (undefined) or 1.           *)
(* Array indices are 0-based as in the source, -1 meaning "not found".     *)
(***************************************************************************)
EXTENDS Integers, Sequences, FiniteSets, TLC

VARIABLES
    allowEdit,                  \* OSMWaySnap.allowEdit
    allowCreate,                \* OSMWaySnap.allowCreate
    autoFocus,                  \* OSMWaySnap.autoFocus
    coordinates,                \* OSMWaySnap.coordinates
    activeFeature,              \* OSMWaySnap.activeFeature: 0 (undefined) or a feature id
    geometry,                   \* coordinates of the geometry of every Feature<LineString> object
    source,                     \* OSMWaySnap.source: ids of the features of the target source
    sketchPoint,                \* OSMWaySnap.sketchPoint (optional coordinate)
    sketchLine,                 \* OSMWaySnap.sketchLine (optional line string)
    draftOriginalLine,          \* OSMWaySnap.draftOriginalLine (optional draft feature)
    wayDrafts,                  \* draft features held by OSMWaySnap.waySource
    waysLoaded,                 \* number of provider ways held by OSMWaySnap.waySource
    candidateLines,             \* OSMWaySnap.candidateLines
    candidatePoints,            \* OSMWaySnap.candidatePoints
    mergingDraftOriginalLine,   \* OSMWaySnap.mergingDraftOriginalLine
    sessions,                   \* number of sessions started so far
    keptPrefix,                 \* the committed vertices the running session started with
    lastOp,                     \* the operation handled last and what it returned
    events,                     \* OSMWaySnapEvents dispatched by the operation handled last
    fits,                       \* extents given to map.getView().fit by the operation handled last
    added,                      \* features given to source.addFeature by the operation handled last
    active,                     \* the 'active' property of the interaction (getActive())
    map,                        \* OSMWaySnap.map and the map of the Interaction: 0 (none) or TheMap
    loadListeners,              \* listeners of 'featuresloadend' that setMap has put on waySource
    mapLayers,                  \* layers of the interaction that are on the map
    mapInteractions,            \* interactions of the map: the OSMWaySnap, its snapInteraction
    utilsCall,                  \* the call of a LineStringUtils method made last, and its result
    busy,                       \* OSMWaySource._busy
    loadedExtents,              \* OSMWaySource.loadedExtents: the extents recorded as loaded
    osmFeatures,                \* ids of the features the OSMWaySource holds
    fetches,                    \* the extents of the OSMWays.fetch calls in progress
    sourceOp                    \* the operation of the OSMWaySource handled last

vars == << allowEdit, allowCreate, autoFocus, coordinates, activeFeature, geometry, source,
           sketchPoint, sketchLine, draftOriginalLine, wayDrafts, waysLoaded,
           candidateLines, candidatePoints, mergingDraftOriginalLine, sessions,
           keptPrefix, lastOp, events, fits, added, active, map, loadListeners,
           mapLayers, mapInteractions, utilsCall,
           busy, loadedExtents, osmFeatures, fetches, sourceOp >>

\* The fields of the OSMWaySource and what is recorded of its last operation
waySourceVars == << busy, loadedExtents, osmFeatures, fetches, sourceOp >>

\* The fields of the interaction and what is recorded of its last operation
interactionVars ==
    << allowEdit, allowCreate, autoFocus, coordinates, activeFeature, geometry, source,
       sketchPoint, sketchLine, draftOriginalLine, wayDrafts, waysLoaded,
       candidateLines, candidatePoints, mergingDraftOriginalLine, sessions,
       keptPrefix, lastOp, events, fits, added, active, map, loadListeners,
       mapLayers, mapInteractions >>

----------------------------------------------------------------------------
(* Bounds of the model *)

\* Number of Feature<LineString> objects of the target source (initial and created).
MaxFeatures == 2

\* Longest committed vertex list the model follows.
MaxLen == 3

\* Number of sessions the model follows.
MaxSessions == 1

\* Most listeners of 'featuresloadend' the model lets the interaction put on waySource.
MaxListeners == 2

\* Most OSMWays.fetch calls the model follows in progress at a time.
MaxFetches == 2

\* Session starts followed on the target source of two polylines
MaxSessionsTwoTargets == 2

\* Longest line string given to LineStringUtils.split on its own.
MaxSplitLen == 3

\* Greatest x and y of the coordinates given to LineStringUtils.split on its own.
MaxSplitXY == 2

----------------------------------------------------------------------------
(* The world the interaction runs in *)

\* Coordinates the pointer input source delivers.
PointerCoords ==
    { <<0, 0>>, <<1, 0>>, <<2, 0>>, <<2, 1>>, <<1, 1>> }

\* The provider's ways in enumeration order: a stem, a closed loop, a tail.
AllWays ==
    << [id |-> "wStem", coords |-> << <<0, 0>>, <<2, 0>> >>],
       [id |-> "wLoop", coords |-> << <<2, 0>>, <<3, 0>>, <<3, 1>>, <<2, 1>>, <<2, 0>> >>],
       [id |-> "wTail", coords |-> << <<2, 1>>, <<2, 2>> >>] >>

\* The polyline the target source holds at construction.
InitialTarget == << <<0, 0>>, <<2, 0>>, <<2, 1>> >>

\* A second polyline of the target source, apart from the first and from the ways.
SecondTarget == << <<1, 1>>, <<1, 2>> >>

FeatureIds == 1..MaxFeatures

\* The one map of the host.
TheMap == 1

None == << >>
Some(x) == << x >>

----------------------------------------------------------------------------
(* Arrays *)

Min(a, b) == IF a < b THEN a ELSE b
Max(a, b) == IF a > b THEN a ELSE b

\* Math.min(...) and Math.max(...) of a non-empty set of numbers
LeastOf(S) == CHOOSE x \in S : \A y \in S : x <= y
GreatestOf(S) == CHOOSE x \in S : \A y \in S : x >= y

\* Array.prototype.slice(from, to) with 0-based indices; a negative from counts from the end.
Slice(s, from, to) ==
    LET f == IF from < 0 THEN Max(Len(s) + from, 0) ELSE Min(from, Len(s))
        t == Min(Max(to, 0), Len(s))
    IN  IF f >= t THEN << >> ELSE [i \in 1..(t - f) |-> s[f + i]]

\* Array.prototype.slice(from)
SliceFrom(s, from) == Slice(s, from, Len(s))

\* Array.prototype.reverse()
Reverse(s) == [i \in 1..Len(s) |-> s[Len(s) + 1 - i]]

\* Array.prototype.findIndex(c => c[0] === coordinate[0] && c[1] === coordinate[1])
FindIndex(coords, coordinate) ==
    IF \E i \in 1..Len(coords) : coords[i] = coordinate
    THEN (CHOOSE i \in 1..Len(coords) :
            coords[i] = coordinate /\ \A j \in 1..(i - 1) : coords[j] # coordinate) - 1
    ELSE -1

RECURSIVE Flat(_)
\* Array.prototype.flat() of an array of coordinate arrays
Flat(ss) == IF ss = << >> THEN << >> ELSE Head(ss) \o Flat(Tail(ss))

----------------------------------------------------------------------------
(* Geometry (ol/geom/LineString) *)

\* LineString.getFirstCoordinate(): the empty array on a geometry without vertices
GetFirstCoordinate(line) == IF line = << >> THEN << >> ELSE line[1]

\* LineString.getLastCoordinate(): the empty array on a geometry without vertices
GetLastCoordinate(line) == IF line = << >> THEN << >> ELSE line[Len(line)]

\* new LineString(coordinates): empty coordinates contribute no vertex
NewLineString(coords) == SelectSeq(coords, LAMBDA c : c # << >>)

\* The closest point of segment [a, b] to p is p itself.
OnSegment(a, b, p) ==
    /\ (b[1] - a[1]) * (p[2] - a[2]) = (b[2] - a[2]) * (p[1] - a[1])
    /\ Min(a[1], b[1]) <= p[1] /\ p[1] <= Max(a[1], b[1])
    /\ Min(a[2], b[2]) <= p[2] /\ p[2] <= Max(a[2], b[2])

\* Geometry.containsXY / intersectsCoordinate: the closest point of the line to p is p.
ContainsXY(line, p) ==
    /\ Len(p) = 2
    /\ \/ Len(line) = 1 /\ line[1] = p
       \/ \E i \in 1..(Len(line) - 1) : OnSegment(line[i], line[i + 1], p)

\* Every coordinate the model can see.
RECURSIVE WayPoints(_)
WayPoints(ws) ==
    IF ws = << >> THEN {}
    ELSE {Head(ws).coords[i] : i \in 1..Len(Head(ws).coords)} \cup WayPoints(Tail(ws))

AllPoints ==
    PointerCoords \cup WayPoints(AllWays) \cup {InitialTarget[i] : i \in 1..Len(InitialTarget)}

SqDist(a, b) == (a[1] - b[1]) * (a[1] - b[1]) + (a[2] - b[2]) * (a[2] - b[2])

\* Math.sqrt on the squared distances of the model, in hundredths, rounded down.
SqrtTable ==
    [d \in {SqDist(a, b) : a, b \in AllPoints} |->
        CHOOSE r \in 0..(100 * (d + 1)) : r * r <= 10000 * d /\ (r + 1) * (r + 1) > 10000 * d]

RECURSIVE GetLength(_)
\* LineString.getLength(): the sum of the lengths of the segments
GetLength(line) ==
    IF Len(line) < 2 THEN 0
    ELSE SqrtTable[SqDist(line[1], line[2])] + GetLength(Tail(line))

----------------------------------------------------------------------------
(* LineStringUtils *)

RECURSIVE SplitIndexFromSegmentsOnly(_, _, _)
\* A faulty loop of getSplitIndex: the test for a vertex is left out.
SplitIndexFromSegmentsOnly(coords, coordinate, i) ==
    IF i >= Len(coords) THEN -1
    ELSE IF ContainsXY(<< coords[i], coords[i + 1] >>, coordinate) THEN i
    ELSE SplitIndexFromSegmentsOnly(coords, coordinate, i + 1)

RECURSIVE SplitIndexFrom(_, _, _)
\* the loop of getSplitIndex, from index i on
SplitIndexFrom(coords, coordinate, i) ==
    IF i >= Len(coords) THEN -1
    ELSE IF coords[i + 1] = coordinate THEN -1
    ELSE IF ContainsXY(<< coords[i], coords[i + 1] >>, coordinate) THEN i
    ELSE SplitIndexFrom(coords, coordinate, i + 1)

GetSplitIndex(coords, coordinate) ==
    IF coords[1] = coordinate THEN -1 ELSE SplitIndexFrom(coords, coordinate, 1)

\* A faulty split: the coordinate is put in after the vertex that ends the segment.
SplitAtBehind(coords, coordinate, idx) ==
    IF idx < 0 THEN coords
    ELSE Slice(coords, 0, idx + 1) \o << coordinate >> \o SliceFrom(coords, idx + 1)

\* the line string split() builds from the split index
SplitAt(coords, coordinate, idx) ==
    IF idx < 0 THEN coords
    ELSE Slice(coords, 0, idx) \o << coordinate >> \o SliceFrom(coords, idx)

Split(coords, coordinate) == SplitAt(coords, coordinate, GetSplitIndex(coords, coordinate))

\* A faulty travel: after the last index it goes on from index 0, the seam once more.
GetLoopTravelIndicesOverSeam(length, fromIdx, toIdx) ==
    IF fromIdx < toIdx THEN [i \in 1..(toIdx - fromIdx + 1) |-> fromIdx + i - 1]
    ELSE [i \in 1..(length - fromIdx) |-> fromIdx + i - 1]
         \o [i \in 1..(toIdx + 1) |-> i - 1]

GetLoopTravelIndices(length, fromIdx, toIdx) ==
    IF fromIdx < toIdx THEN [i \in 1..(toIdx - fromIdx + 1) |-> fromIdx + i - 1]
    ELSE [i \in 1..(length - fromIdx) |-> fromIdx + i - 1]
         \o [i \in 1..Max(toIdx, 0) |-> i]

\* indices.map(i => lineString.getCoordinates()[i])
CoordinatesAt(coords, indices) == [i \in 1..Len(indices) |-> coords[indices[i] + 1]]

\* A faulty choice: the forward line string also when both are equally long.
ForwardUnlessLonger(forwardLineString, revertedLineString) ==
    IF GetLength(forwardLineString) <= GetLength(revertedLineString)
    THEN forwardLineString ELSE revertedLineString

\* the forward line string if it is strictly shorter, else the reverted one
ShorterLineString(forwardLineString, revertedLineString) ==
    IF GetLength(forwardLineString) < GetLength(revertedLineString)
    THEN forwardLineString ELSE revertedLineString

\* A faulty getShorterPathOnLoop: the indices travelled from toIdx are not reversed.
GetShorterPathOnLoopUnreverted(coords, fromIdx, toIdx) ==
    IF fromIdx = toIdx THEN << >>
    ELSE ShorterLineString(
             CoordinatesAt(coords, GetLoopTravelIndices(Len(coords), fromIdx, toIdx)),
             CoordinatesAt(coords, GetLoopTravelIndices(Len(coords), toIdx, fromIdx)))

GetShorterPathOnLoop(coords, fromIdx, toIdx) ==
    IF fromIdx = toIdx THEN << >>
    ELSE ShorterLineString(
             CoordinatesAt(coords, GetLoopTravelIndices(Len(coords), fromIdx, toIdx)),
             CoordinatesAt(coords, Reverse(GetLoopTravelIndices(Len(coords), toIdx, fromIdx))))

----------------------------------------------------------------------------
(* The interaction's state as one record, so that a handler is a function   *)
(* from state to state, composed as the source composes its method calls.   *)

Self ==
    [ allowEdit |-> allowEdit, allowCreate |-> allowCreate,
      coordinates |-> coordinates, activeFeature |-> activeFeature,
      geometry |-> geometry, source |-> source,
      sketchPoint |-> sketchPoint, sketchLine |-> sketchLine,
      draftOriginalLine |-> draftOriginalLine, wayDrafts |-> wayDrafts,
      waysLoaded |-> waysLoaded,
      candidateLines |-> candidateLines, candidatePoints |-> candidatePoints,
      mergingDraftOriginalLine |-> mergingDraftOriginalLine,
      sessions |-> sessions, keptPrefix |-> keptPrefix,
      autoFocus |-> autoFocus,
      active |-> active, map |-> map, loadListeners |-> loadListeners,
      mapLayers |-> mapLayers, mapInteractions |-> mapInteractions,
      events |-> << >>, fits |-> << >>, added |-> << >>, withinBounds |-> TRUE ]

\* waySource.getFeatures(): the provider's ways, then the drafts the interaction added
WaySourceFeatures(s) ==
    SubSeq(AllWays, 1, s.waysLoaded)
        \o [i \in 1..Len(s.wayDrafts) |-> [id |-> "", coords |-> s.wayDrafts[i].coords]]

\* Feature objects no collection and no field refers to
FreeIds(s) == {f \in FeatureIds : f \notin s.source /\ f # s.activeFeature}

\* The least identifier no draft feature of the way source uses
FreeDraftUid(s) ==
    CHOOSE u \in 1..(Len(s.wayDrafts) + 1) :
        /\ \A i \in 1..Len(s.wayDrafts) : s.wayDrafts[i].uid # u
        /\ \A v \in 1..(u - 1) : \E i \in 1..Len(s.wayDrafts) : s.wayDrafts[i].uid = v

\* this.activeFeature.getGeometry().getCoordinates()
ActiveGeometry(s) == s.geometry[s.activeFeature]

\* this.activeFeature.getGeometry().getLastCoordinate()
ActiveLastCoordinate(s) == GetLastCoordinate(ActiveGeometry(s))

----------------------------------------------------------------------------
(* Sketch line *)

RemoveSketchPoint(s) == [s EXCEPT !.sketchPoint = None]

RemoveSketchLine(s) == [s EXCEPT !.sketchLine = None]

RemoveCandidateLines(s) == [s EXCEPT !.candidateLines = << >>]

RemoveCandidatePoints(s) == [s EXCEPT !.candidatePoints = << >>]

\* candidate = LineStringUtils.split(candidate, c) unless c is a vertex of candidate
SplitUnlessVertex(candidate, c) ==
    IF FindIndex(candidate, c) < 0 THEN Split(candidate, c) ELSE candidate

\* A faulty getSketchLineCoordinates: the vertices are returned in the candidate's own
\* order, whichever of the two indices comes first.
SketchBetweenInLineOrder(candidate, startIdx, endIdx, candidateIsLoop) ==
    IF startIdx < 0 THEN << >>
    ELSE IF candidateIsLoop THEN GetShorterPathOnLoop(candidate, startIdx, endIdx)
    ELSE IF endIdx < 0 THEN << >>
    ELSE IF endIdx = startIdx THEN << >>
    ELSE IF startIdx < endIdx THEN Slice(candidate, startIdx, endIdx + 1)
    ELSE Slice(candidate, endIdx, startIdx + 1)

\* getSketchLineCoordinates from the two indices on
SketchBetween(candidate, startIdx, endIdx, candidateIsLoop) ==
    IF startIdx < 0 THEN << >>
    ELSE IF candidateIsLoop THEN GetShorterPathOnLoop(candidate, startIdx, endIdx)
    ELSE IF endIdx < 0 THEN << >>
    ELSE IF endIdx = startIdx THEN << >>
    ELSE IF startIdx < endIdx THEN Slice(candidate, startIdx, endIdx + 1)
    ELSE Reverse(Slice(candidate, endIdx, startIdx + 1))

\* getSketchLineCoordinates on the candidate that holds both coordinates as vertices
SketchOnSplit(candidate, activeFeatureLastCoor, mouseCoor, candidateIsLoop) ==
    SketchBetween(candidate, FindIndex(candidate, activeFeatureLastCoor),
                  FindIndex(candidate, mouseCoor), candidateIsLoop)

\* getSketchLineCoordinates given the tip of the active feature
SketchFromTip(activeFeatureLastCoor, mouseCoor, candidate, candidateIsLoop) ==
    IF candidateIsLoop /\ activeFeatureLastCoor = mouseCoor THEN << >>
    ELSE SketchOnSplit(
             SplitUnlessVertex(SplitUnlessVertex(candidate, activeFeatureLastCoor), mouseCoor),
             activeFeatureLastCoor, mouseCoor, candidateIsLoop)

GetSketchLineCoordinates(s, mouseCoor, candidate) ==
    SketchFromTip(ActiveLastCoordinate(s), mouseCoor, candidate,
                  GetFirstCoordinate(candidate) = GetLastCoordinate(candidate))

\* A faulty push: the slice starts at the junction itself.
PushRemainingFromJunction(coords, lineToExtend, lastCoordinate) ==
    coords \o SliceFrom(lineToExtend, FindIndex(lineToExtend, lastCoordinate))

\* coordinates.push(...lineToExtend.getCoordinates().slice(extendFromIdx + 1))
PushRemaining(coords, lineToExtend, lastCoordinate) ==
    coords \o SliceFrom(lineToExtend, FindIndex(lineToExtend, lastCoordinate) + 1)

\* A faulty extendSketchLineCoorsToDraftOriginal: coordinates that end on no candidate
\* line, the straight line from the tip, are left as they are.
ExtendWalkToDraftOriginal(s, coords) ==
    IF s.draftOriginalLine = None
       \/ ~ContainsXY(s.draftOriginalLine[1].coords, GetLastCoordinate(coords))
       \/ \A i \in 1..Len(s.candidateLines) :
              ~ContainsXY(s.candidateLines[i].coords, GetLastCoordinate(coords))
    THEN [coords |-> coords, merging |-> s.mergingDraftOriginalLine]
    ELSE [coords |-> PushRemaining(coords,
                         SplitUnlessVertex(s.draftOriginalLine[1].coords,
                                           GetLastCoordinate(coords)),
                         GetLastCoordinate(coords)),
          merging |-> TRUE]

\* The result of extendSketchLineCoorsToDraftOriginal: the coordinates, extended in place
\* or not, and the merging flag.
ExtendSketchLineCoorsToDraftOriginal(s, coords) ==
    IF s.draftOriginalLine = None
       \/ ~ContainsXY(s.draftOriginalLine[1].coords, GetLastCoordinate(coords))
    THEN [coords |-> coords, merging |-> s.mergingDraftOriginalLine]
    ELSE [coords |-> PushRemaining(coords,
                         SplitUnlessVertex(s.draftOriginalLine[1].coords,
                                           GetLastCoordinate(coords)),
                         GetLastCoordinate(coords)),
          merging |-> TRUE]

\* "if (candidateSketchCoors.length) { sketchCoors = candidateSketchCoors; break; }"
FirstNonEmpty(candidateSketchCoors, others) ==
    IF candidateSketchCoors # << >> THEN candidateSketchCoors ELSE others

RECURSIVE FirstSketch(_, _, _)
\* The loop over the candidates: the first non-empty result, or the empty array
FirstSketch(s, coordinate, candidates) ==
    IF candidates = << >> THEN << >>
    ELSE FirstNonEmpty(GetSketchLineCoordinates(s, coordinate, Head(candidates).coords),
                       FirstSketch(s, coordinate, Tail(candidates)))

\* A faulty sketchCoors: taken from the candidates only, with no straight line from the tip.
SketchCoorsOnCandidates(s, coordinate, candidates) == FirstSketch(s, coordinate, candidates)

\* A faulty sketchCoors: the straight line from the tip whenever no candidate gives a walk.
SketchCoorsOrStraight(s, coordinate, candidates) ==
    FirstNonEmpty(FirstSketch(s, coordinate, candidates),
                  << ActiveLastCoordinate(s), coordinate >>)

\* sketchCoors of createOrUpdateSketchLine before the extension to the draft
SketchCoors(s, coordinate, candidates) ==
    IF candidates = << >> THEN << ActiveLastCoordinate(s), coordinate >>
    ELSE FirstSketch(s, coordinate, candidates)

\* the sketch line set from the extended coordinates
SetSketchLine(s, extended) ==
    [s EXCEPT !.sketchLine = Some(NewLineString(extended.coords)),
              !.mergingDraftOriginalLine = extended.merging]

\* createOrUpdateSketchLine from sketchCoors on
SketchLineFrom(s, sketchCoors) ==
    IF sketchCoors = << >> THEN RemoveSketchLine(s)
    ELSE IF s.allowEdit
    THEN SetSketchLine(s, ExtendSketchLineCoorsToDraftOriginal(s, sketchCoors))
    ELSE SetSketchLine(s, [coords |-> sketchCoors, merging |-> s.mergingDraftOriginalLine])

CreateOrUpdateSketchLine(s, coordinate) ==
    SketchLineFrom(s, SketchCoors(s, coordinate,
        SelectSeq(s.candidateLines, LAMBDA feature : ContainsXY(feature.coords, coordinate))))

\* A faulty createOrUpdateSketchPoint: allowCreate alone decides, session or not.
CreateOrUpdateSketchPointIfCreating(s, coordinate) ==
    IF ~s.allowCreate THEN RemoveSketchPoint(s)
    ELSE [s EXCEPT !.sketchPoint = Some(coordinate)]

CreateOrUpdateSketchPoint(s, coordinate) ==
    IF ~s.allowCreate /\ s.activeFeature = 0 THEN RemoveSketchPoint(s)
    ELSE [s EXCEPT !.sketchPoint = Some(coordinate)]

\* candidateLines and candidatePoints set from the filtered way features
SetCandidates(s, lines) ==
    [s EXCEPT !.candidateLines = lines,
              !.candidatePoints = Flat([i \in 1..Len(lines) |-> lines[i].coords])]

\* boundingExtent(coordinates) and getExtent(): [minX, minY, maxX, maxY]
BoundingExtent(coords) ==
    << LeastOf({coords[i][1] : i \in 1..Len(coords)}),
       LeastOf({coords[i][2] : i \in 1..Len(coords)}),
       GreatestOf({coords[i][1] : i \in 1..Len(coords)}),
       GreatestOf({coords[i][2] : i \in 1..Len(coords)}) >>

\* map.getView().fit(extent, ...)
Fit(s, extent) == [s EXCEPT !.fits = Append(@, extent)]

\* fitCoordinates of fitCandidatesToMapView: the candidate points that are the last
\* committed vertex or lie off the active feature
FitCoordinates(s) ==
    SelectSeq(s.candidatePoints,
              LAMBDA p : p = GetLastCoordinate(s.coordinates)
                         \/ ~ContainsXY(ActiveGeometry(s), p))

FitCandidatesToMapView(s) ==
    IF Len(FitCoordinates(s)) > 1 THEN Fit(s, BoundingExtent(FitCoordinates(s))) ELSE s

\* A faulty calculateCandidates: the view is fitted whenever fit is true.
FitIfFitAsked(s, fit) == IF fit THEN FitCandidatesToMapView(s) ELSE s

\* "if (fit && this.autoFocus) { this.fitCandidatesToMapView(); }"
FitIfAsked(s, fit) == IF fit /\ s.autoFocus THEN FitCandidatesToMapView(s) ELSE s

\* A faulty calculateCandidates: only the lines with a vertex at the tip are candidates.
CalculateCandidatesAtVertices(s, fit) ==
    CreateOrUpdateSketchLine(
        FitIfAsked(
            SetCandidates(s, SelectSeq(WaySourceFeatures(s),
                LAMBDA feature : FindIndex(feature.coords, ActiveLastCoordinate(s)) >= 0)),
            fit),
        ActiveLastCoordinate(s))

CalculateCandidates(s, fit) ==
    CreateOrUpdateSketchLine(
        FitIfAsked(
            SetCandidates(s, SelectSeq(WaySourceFeatures(s),
                LAMBDA feature : ContainsXY(feature.coords, ActiveLastCoordinate(s)))),
            fit),
        ActiveLastCoordinate(s))

----------------------------------------------------------------------------
(* Notifications.  The source tree declares the event types and the event   *)
(* class (src/src/event.ts) and its tests listen for them; the dispatching   *)
(* statements are placed as the specification's transition list places them. *)

DispatchEvent(s, type) ==
    [s EXCEPT !.events = Append(@, [type |-> type, feature |-> s.activeFeature])]

\* session start by creation: START, START-CREATE
DispatchStartCreate(s) == DispatchEvent(DispatchEvent(s, "waysnapstart"), "waysnapstartcreate")

\* session start by edit entry: START, START-EDIT
DispatchStartEdit(s) == DispatchEvent(DispatchEvent(s, "waysnapstart"), "waysnapstartedit")

\* commit of new vertices: UPDATE
DispatchUpdate(s) == DispatchEvent(s, "waysnapupdate")

\* finish: END, carrying the polyline that was active
DispatchEnd(s) == IF s.activeFeature = 0 THEN s ELSE DispatchEvent(s, "waysnapend")

----------------------------------------------------------------------------
(* Session *)

\* "if (this.draftOriginalLine && this.waySource.hasFeature(this.draftOriginalLine))
\*    this.waySource.removeFeature(this.draftOriginalLine)"
RemoveDraftFromWaySource(s) ==
    IF s.draftOriginalLine = None THEN s
    ELSE [s EXCEPT !.wayDrafts =
             SelectSeq(@, LAMBDA d : d.uid # s.draftOriginalLine[1].uid)]

\* A faulty finishEditing: the candidate points are left as they are.
ClearSessionKeepingPoints(s) ==
    [RemoveDraftFromWaySource(
         RemoveCandidateLines(RemoveSketchLine(RemoveSketchPoint(
             [s EXCEPT !.activeFeature = 0, !.coordinates = << >>]))))
     EXCEPT !.draftOriginalLine = None, !.mergingDraftOriginalLine = FALSE]

\* finishEditing once the notification is out
ClearSession(s) ==
    [RemoveDraftFromWaySource(
         RemoveCandidatePoints(RemoveCandidateLines(RemoveSketchLine(RemoveSketchPoint(
             [s EXCEPT !.activeFeature = 0, !.coordinates = << >>])))))
     EXCEPT !.draftOriginalLine = None, !.mergingDraftOriginalLine = FALSE]

\* "if (this.autoFocus && this.map && this.activeFeature && this.coordinates.length > 1)":
\* the view is fitted to the extent of the active feature
FitActiveFeature(s) ==
    IF s.autoFocus /\ s.activeFeature # 0 /\ Len(s.coordinates) > 1
    THEN Fit(s, BoundingExtent(ActiveGeometry(s)))
    ELSE s

\* A faulty finishEditing: the coordinates of the draft after its first are given back to
\* the active feature.
FinishEditingGivingBackDraft(s) ==
    ClearSession(FitActiveFeature(DispatchEnd(
        IF s.draftOriginalLine = None \/ s.activeFeature = 0 THEN s
        ELSE [s EXCEPT !.geometry = [@ EXCEPT ![s.activeFeature] =
                                         @ \o Tail(s.draftOriginalLine[1].coords)]])))

FinishEditing(s) == ClearSession(FitActiveFeature(DispatchEnd(s)))

\* A faulty enterEditMode: the draft starts after the clicked vertex.
EnterEditModeAfter(s, feature, originalCoordinates, fromCoordinateIdx) ==
    [s EXCEPT !.coordinates = Slice(originalCoordinates, 0, fromCoordinateIdx + 1),
              !.draftOriginalLine =
                  Some([uid |-> FreeDraftUid(s),
                        coords |-> NewLineString(
                                       SliceFrom(originalCoordinates, fromCoordinateIdx + 1))]),
              !.wayDrafts =
                  Append(@, [uid |-> FreeDraftUid(s),
                             coords |-> NewLineString(
                                            SliceFrom(originalCoordinates, fromCoordinateIdx + 1))]),
              !.geometry = [@ EXCEPT ![feature] =
                               Slice(originalCoordinates, 0, fromCoordinateIdx + 1)],
              !.activeFeature = feature,
              !.mergingDraftOriginalLine = FALSE]

\* enterEditMode from the index of fromCoordinate on
EnterEditModeAt(s, feature, originalCoordinates, fromCoordinateIdx) ==
    [s EXCEPT !.coordinates = Slice(originalCoordinates, 0, fromCoordinateIdx + 1),
              !.draftOriginalLine =
                  Some([uid |-> FreeDraftUid(s),
                        coords |-> NewLineString(
                                       SliceFrom(originalCoordinates, fromCoordinateIdx))]),
              !.wayDrafts =
                  Append(@, [uid |-> FreeDraftUid(s),
                             coords |-> NewLineString(
                                            SliceFrom(originalCoordinates, fromCoordinateIdx))]),
              !.geometry = [@ EXCEPT ![feature] =
                               Slice(originalCoordinates, 0, fromCoordinateIdx + 1)],
              !.activeFeature = feature,
              !.mergingDraftOriginalLine = FALSE]

EnterEditMode(s, feature, fromCoordinate) ==
    EnterEditModeAt(s, feature, s.geometry[feature],
                    FindIndex(s.geometry[feature], fromCoordinate))

\* "this.activeFeature = new Feature<LineString>(new LineString(this.coordinates))"
NewActiveFeature(s, f) ==
    [s EXCEPT !.activeFeature = f,
              !.geometry = [@ EXCEPT ![f] = NewLineString(s.coordinates)]]

\* A faulty updateFeature: a new feature is made for the coordinates whether or not a
\* feature is active.
SetActiveGeometryAsNew(s) ==
    IF FreeIds(s) = {} THEN [s EXCEPT !.withinBounds = FALSE]
    ELSE NewActiveFeature(s, CHOOSE g \in FreeIds(s) : \A h \in FreeIds(s) : g <= h)

\* this.source.addFeature(feature)
AddFeature(s, feature) ==
    [s EXCEPT !.source = @ \cup {feature}, !.added = Append(@, feature)]

\* A faulty updateFeature: the active feature is added to the source at every update that
\* leaves it more than one vertex.
AddActiveFeatureAtEveryUpdate(s) ==
    IF Len(s.coordinates) > 1 THEN AddFeature(s, s.activeFeature) ELSE s

\* "if (this.coordinates.length > 1 && !this.source.hasFeature(this.activeFeature))"
AddActiveFeatureIfNew(s) ==
    IF Len(s.coordinates) > 1 /\ s.activeFeature \notin s.source
    THEN AddFeature(s, s.activeFeature) ELSE s

\* updateFeature before calculateCandidates
SetActiveGeometry(s) ==
    IF s.activeFeature = 0
    THEN IF FreeIds(s) = {} THEN [s EXCEPT !.withinBounds = FALSE]
         ELSE NewActiveFeature(s, CHOOSE g \in FreeIds(s) : \A h \in FreeIds(s) : g <= h)
    ELSE AddActiveFeatureIfNew(
             [s EXCEPT !.geometry = [@ EXCEPT ![s.activeFeature] = s.coordinates]])

\* calculateCandidates, for the states the model follows
CalculateCandidatesWithinBounds(s) == IF s.withinBounds THEN CalculateCandidates(s, TRUE) ELSE s

UpdateFeature(s) == CalculateCandidatesWithinBounds(SetActiveGeometry(s))

\* Features of the target source whose geometry intersects the coordinate
OverlappedFeatures(s, coordinate) ==
    {f \in s.source : ContainsXY(s.geometry[f], coordinate)}

\* A session starts: counted, and the vertices it starts with are remembered.
Started(s) == [s EXCEPT !.sessions = @ + 1, !.keptPrefix = s.coordinates]

\* A faulty first vertex: the coordinate of the click, whatever the sketch point shows.
FirstVertexAtClick(s, coordinate) == [s EXCEPT !.coordinates = << coordinate >>]

\* "this.coordinates = [this.sketchPoint?.getGeometry()!.getCoordinates() ?? event.coordinate]"
FirstVertex(s, coordinate) ==
    [s EXCEPT !.coordinates = << IF s.sketchPoint # None THEN s.sketchPoint[1] ELSE coordinate >>]

\* A faulty push: the whole sketch line, its first coordinate included.
PushWholeSketchLine(s) ==
    [s EXCEPT !.coordinates = @ \o s.sketchLine[1],
              !.withinBounds = Len(s.coordinates \o s.sketchLine[1]) <= MaxLen + 1]

\* A faulty commit: the sketch line takes the place of the committed vertices.
ReplaceBySketchLine(s) ==
    [s EXCEPT !.coordinates = s.sketchLine[1],
              !.withinBounds = Len(s.sketchLine[1]) <= MaxLen]

\* "this.coordinates.push(...this.sketchLine.getGeometry()!.getCoordinates().slice(1))"
PushSketchLine(s) ==
    [s EXCEPT !.coordinates = @ \o SliceFrom(s.sketchLine[1], 1),
              !.withinBounds = Len(s.coordinates \o SliceFrom(s.sketchLine[1], 1)) <= MaxLen]

\* A faulty merge: the session state is cleared without a call of finishEditing.
ClearIfMerging(s) == IF s.mergingDraftOriginalLine THEN ClearSession(s) ELSE s

\* "if (this.mergingDraftOriginalLine) this.finishEditing()"
FinishIfMerging(s) == IF s.mergingDraftOriginalLine THEN FinishEditing(s) ELSE s

\* A faulty handleEvent: a feature under the click is edited whatever allowEdit says.
HandleClickIdleEditUnchecked(s, coordinate, overlapped) ==
    IF OverlappedFeatures(s, coordinate) # {}
    THEN [state |-> Started(DispatchStartEdit(
                        UpdateFeature(EnterEditMode(s, overlapped, coordinate)))),
          passed |-> FALSE]
    ELSE IF s.allowCreate
    THEN [state |-> Started(DispatchStartCreate(UpdateFeature(FirstVertex(s, coordinate)))),
          passed |-> FALSE]
    ELSE [state |-> s, passed |-> TRUE]

\* A faulty handleEvent: a creation is announced before updateFeature has made the feature.
HandleClickIdleAnnouncesEarly(s, coordinate, overlapped) ==
    IF s.allowEdit /\ OverlappedFeatures(s, coordinate) # {}
    THEN [state |-> Started(DispatchStartEdit(
                        UpdateFeature(EnterEditMode(s, overlapped, coordinate)))),
          passed |-> FALSE]
    ELSE IF s.allowCreate
    THEN [state |-> Started(UpdateFeature(DispatchStartCreate(FirstVertex(s, coordinate)))),
          passed |-> FALSE]
    ELSE [state |-> s, passed |-> TRUE]

\* handleEvent for a click while this.coordinates is empty.  overlapped is
\* overlappedFeatures[0] when a feature of the target source lies under the click;
\* VectorSource.getFeatures() decides which.
HandleClickIdle(s, coordinate, overlapped) ==
    IF s.allowEdit /\ OverlappedFeatures(s, coordinate) # {}
    THEN [state |-> Started(DispatchStartEdit(
                        UpdateFeature(EnterEditMode(s, overlapped, coordinate)))),
          passed |-> FALSE]
    ELSE IF s.allowCreate
    THEN [state |-> Started(DispatchStartCreate(UpdateFeature(FirstVertex(s, coordinate)))),
          passed |-> FALSE]
    ELSE [state |-> s, passed |-> TRUE]

\* A faulty handleEvent: a click on the tip leaves the draft of the original line in the
\* way source.
HandleClickActiveKeepsDraft(s, coordinate) ==
    IF ActiveLastCoordinate(s) = coordinate
    THEN [state |-> [FinishEditing(s) EXCEPT !.wayDrafts = s.wayDrafts], passed |-> FALSE]
    ELSE IF s.sketchLine # None
    THEN [state |-> FinishIfMerging(DispatchUpdate(UpdateFeature(PushSketchLine(s)))),
          passed |-> FALSE]
    ELSE [state |-> s, passed |-> TRUE]

\* A faulty handleEvent: a click away from the tip updates the feature, sketch line or not.
HandleClickActiveAlwaysUpdates(s, coordinate) ==
    IF ActiveLastCoordinate(s) = coordinate
    THEN [state |-> FinishEditing(s), passed |-> FALSE]
    ELSE IF s.sketchLine # None
    THEN [state |-> FinishIfMerging(DispatchUpdate(UpdateFeature(PushSketchLine(s)))),
          passed |-> FALSE]
    ELSE [state |-> FinishIfMerging(DispatchUpdate(UpdateFeature(s))), passed |-> FALSE]

\* A faulty handleEvent: a click on the tip commits the sketch line before it finishes.
HandleClickActiveCommitsAtTip(s, coordinate) ==
    IF ActiveLastCoordinate(s) = coordinate
    THEN [state |-> IF s.sketchLine # None
                    THEN FinishEditing(UpdateFeature(PushSketchLine(s)))
                    ELSE FinishEditing(s),
          passed |-> FALSE]
    ELSE IF s.sketchLine # None
    THEN [state |-> FinishIfMerging(DispatchUpdate(UpdateFeature(PushSketchLine(s)))),
          passed |-> FALSE]
    ELSE [state |-> s, passed |-> TRUE]

\* handleEvent for a click while this.coordinates holds vertices
HandleClickActive(s, coordinate) ==
    IF ActiveLastCoordinate(s) = coordinate
    THEN [state |-> FinishEditing(s), passed |-> FALSE]
    ELSE IF s.sketchLine # None
    THEN [state |-> FinishIfMerging(DispatchUpdate(UpdateFeature(PushSketchLine(s)))),
          passed |-> FALSE]
    ELSE [state |-> s, passed |-> TRUE]

\* A faulty handleEvent that tests for a feature under the click before it tests
\* this.coordinates: a click on another polyline enters edit mode in mid-session.
HandleClickEditFirst(s, coordinate, overlapped) ==
    IF s.coordinates = << >> \/ (s.allowEdit /\ overlapped # 0 /\ overlapped # s.activeFeature)
    THEN HandleClickIdle(s, coordinate, overlapped)
    ELSE HandleClickActive(s, coordinate)

\* handleEvent for a click: the state it leaves and whether the event was passed on to
\* the default handling.
HandleClick(s, coordinate, overlapped) ==
    IF s.coordinates = << >> THEN HandleClickIdle(s, coordinate, overlapped)
    ELSE HandleClickActive(s, coordinate)

\* handleMoveEvent from the sketch point on
SketchLineIfStarted(s, coordinate) ==
    IF s.coordinates # << >> THEN CreateOrUpdateSketchLine(s, coordinate) ELSE s

HandleMoveEvent(s, coordinate) ==
    SketchLineIfStarted(CreateOrUpdateSketchPoint(s, coordinate), coordinate)

\* A faulty waysFeaturesLoadEnded: calculateCandidates is called with its default, fit = true.
WaysFeaturesLoadEndedFitting(s) ==
    IF s.activeFeature = 0 THEN s ELSE CalculateCandidates(s, TRUE)

WaysFeaturesLoadEnded(s) ==
    IF s.activeFeature = 0 THEN s ELSE CalculateCandidates(s, FALSE)

----------------------------------------------------------------------------
(* The state machine *)

\* A feature object nothing refers to any more is gone.
Collected(s) ==
    [f \in FeatureIds |-> IF f \in s.source \/ f = s.activeFeature THEN s.geometry[f] ELSE << >>]

Assign(s) ==
    /\ s.withinBounds
    /\ allowEdit' = s.allowEdit
    /\ allowCreate' = s.allowCreate
    /\ autoFocus' = s.autoFocus
    /\ coordinates' = s.coordinates
    /\ activeFeature' = s.activeFeature
    /\ geometry' = Collected(s)
    /\ source' = s.source
    /\ sketchPoint' = s.sketchPoint
    /\ sketchLine' = s.sketchLine
    /\ draftOriginalLine' = s.draftOriginalLine
    /\ wayDrafts' = s.wayDrafts
    /\ waysLoaded' = s.waysLoaded
    /\ candidateLines' = s.candidateLines
    /\ candidatePoints' = s.candidatePoints
    /\ mergingDraftOriginalLine' = s.mergingDraftOriginalLine
    /\ sessions' = s.sessions
    /\ keptPrefix' = IF s.activeFeature = 0 THEN << >> ELSE s.keptPrefix
    /\ events' = s.events
    /\ fits' = s.fits
    /\ added' = s.added
    /\ active' = s.active
    /\ map' = s.map
    /\ loadListeners' = s.loadListeners
    /\ mapLayers' = s.mapLayers
    /\ mapInteractions' = s.mapInteractions
    /\ UNCHANGED utilsCall
    /\ UNCHANGED waySourceVars

\* No method of LineStringUtils has been called on its own.
NoCall ==
    [method |-> "", lineString |-> << >>, coordinate |-> << >>,
     fromIdx |-> 0, toIdx |-> 0, returned |-> << >>]

\* The interaction as the host has it after map.addInteraction(interaction): active, on
\* the map with its layers and its snap interaction, listening to the way source once.
Attached ==
    /\ active = TRUE
    /\ map = TheMap
    /\ loadListeners = 1
    /\ mapLayers = {"wayLayer", "overlayLayer"}
    /\ mapInteractions = {"OSMWaySnap", "snapInteraction"}

\* The OSMWaySource as constructed: not busy, nothing loaded, nothing fetched.
NoFetch ==
    /\ busy = FALSE
    /\ loadedExtents = {}
    /\ osmFeatures = {}
    /\ fetches = << >>
    /\ sourceOp = "init"

Op(kind, coordinate, passed) == [kind |-> kind, coordinate |-> coordinate, passed |-> passed]

Init ==
    /\ allowEdit = TRUE
    /\ allowCreate = TRUE
    /\ autoFocus = TRUE
    /\ coordinates = << >>
    /\ activeFeature = 0
    /\ geometry = [f \in FeatureIds |-> IF f = 1 THEN InitialTarget ELSE << >>]
    /\ source = {1}
    /\ sketchPoint = None
    /\ sketchLine = None
    /\ draftOriginalLine = None
    /\ wayDrafts = << >>
    /\ waysLoaded = Len(AllWays) - 1
    /\ candidateLines = << >>
    /\ candidatePoints = << >>
    /\ mergingDraftOriginalLine = FALSE
    /\ sessions = 0
    /\ keptPrefix = << >>
    /\ lastOp = Op("init", << >>, FALSE)
    /\ events = << >>
    /\ fits = << >>
    /\ added = << >>
    /\ Attached
    /\ utilsCall = NoCall
    /\ NoFetch

\* The pointer input source delivers a pointer move.
PointerMove ==
    \E coordinate \in PointerCoords :
        /\ Assign(HandleMoveEvent(Self, coordinate))
        /\ lastOp' = Op("move", coordinate, TRUE)

\* The pointer input source delivers a click.  A click that starts a session while no
\* vertex is committed is followed for the first maxSessions sessions.
ClickUpTo(maxSessions) ==
    \E coordinate \in PointerCoords :
        \E overlapped \in IF OverlappedFeatures(Self, coordinate) = {} THEN {0}
                          ELSE OverlappedFeatures(Self, coordinate) :
            /\ coordinates = << >>
                   /\ HandleClick(Self, coordinate, overlapped).state.sessions > sessions
                    => sessions < maxSessions
            /\ Assign(HandleClick(Self, coordinate, overlapped).state)
            /\ lastOp' = Op("click", coordinate, HandleClick(Self, coordinate, overlapped).passed)

Click == ClickUpTo(MaxSessions)

\* The host calls finishEditing().
Finish ==
    /\ Assign(FinishEditing(Self))
    /\ lastOp' = Op("finish", << >>, FALSE)

\* The provider loads one more way, or none, and notifies featuresloadend.
FeaturesLoadEnd ==
    \E n \in {waysLoaded, Min(waysLoaded + 1, Len(AllWays))} :
        /\ Assign(WaysFeaturesLoadEnded([Self EXCEPT !.waysLoaded = n]))
        /\ lastOp' = Op("load", << >>, FALSE)

\* The host sets the allowEdit property.
SetAllowEdit ==
    \E b \in BOOLEAN :
        /\ Assign([Self EXCEPT !.allowEdit = b])
        /\ lastOp' = Op("flag", << >>, FALSE)

\* The host sets the allowCreate property.
SetAllowCreate ==
    \E b \in BOOLEAN :
        /\ Assign([Self EXCEPT !.allowCreate = b])
        /\ lastOp' = Op("flag", << >>, FALSE)

Next ==
    \/ PointerMove
    \/ Click
    \/ Finish
    \/ FeaturesLoadEnd
    \/ SetAllowEdit
    \/ SetAllowCreate

Spec == Init /\ [][Next]_vars

\* The interaction constructed with allowCreate: false on a target source that holds two
\* polylines that do not touch, followed for two session starts; the host leaves
\* allowEdit and allowCreate as they are.
InitTwoTargets ==
    /\ allowEdit = TRUE
    /\ allowCreate = FALSE
    /\ autoFocus = TRUE
    /\ coordinates = << >>
    /\ activeFeature = 0
    /\ geometry = [f \in FeatureIds |-> IF f = 1 THEN InitialTarget ELSE SecondTarget]
    /\ source = FeatureIds
    /\ sketchPoint = None
    /\ sketchLine = None
    /\ draftOriginalLine = None
    /\ wayDrafts = << >>
    /\ waysLoaded = Len(AllWays) - 1
    /\ candidateLines = << >>
    /\ candidatePoints = << >>
    /\ mergingDraftOriginalLine = FALSE
    /\ sessions = 0
    /\ keptPrefix = << >>
    /\ lastOp = Op("init", << >>, FALSE)
    /\ events = << >>
    /\ fits = << >>
    /\ added = << >>
    /\ Attached
    /\ utilsCall = NoCall
    /\ NoFetch

ClickTwoTargets == ClickUpTo(MaxSessionsTwoTargets)

NextTwoTargets ==
    \/ PointerMove
    \/ ClickTwoTargets
    \/ Finish
    \/ FeaturesLoadEnd

SpecTwoTargets == InitTwoTargets /\ [][NextTwoTargets]_vars

\* The host sets the autoFocus property.
SetAutoFocus ==
    \E b \in BOOLEAN :
        /\ Assign([Self EXCEPT !.autoFocus = b])
        /\ lastOp' = Op("flag", << >>, FALSE)

\* The interaction with allowEdit and allowCreate left as constructed, and autoFocus set
\* and cleared by the host at any time.
NextAutoFocus ==
    \/ PointerMove
    \/ Click
    \/ Finish
    \/ FeaturesLoadEnd
    \/ SetAutoFocus

SpecAutoFocus == Init /\ [][NextAutoFocus]_vars

----------------------------------------------------------------------------
(* The interaction on and off the map *)

\* "this.waySource.un('featuresloadend', this.waysFeaturesLoadEnded.bind(this))": bind
\* makes a function that was never registered, so no listener is removed.
UnFeaturesLoadEnd(s) == s

\* setMap before super.setMap(map): the layers and the snap interaction leave the map.
RemoveFromMap(s) ==
    IF s.map = 0 THEN s
    ELSE [UnFeaturesLoadEnd(s) EXCEPT !.mapLayers = @ \ {"wayLayer", "overlayLayer"},
                                      !.mapInteractions = @ \ {"snapInteraction"}]

\* setMap after "this.map = map ?? undefined": a listener more on the way source, the
\* layers and the snap interaction on the map.
AddToMap(s) ==
    IF s.map = 0 THEN s
    ELSE IF s.loadListeners >= MaxListeners THEN [s EXCEPT !.withinBounds = FALSE]
    ELSE [s EXCEPT !.loadListeners = @ + 1,
                   !.mapLayers = @ \cup {"wayLayer", "overlayLayer"},
                   !.mapInteractions = @ \cup {"snapInteraction"}]

SetMap(s, m) == AddToMap([RemoveFromMap(s) EXCEPT !.map = m])

\* "this.setMap(this.getActive() ? (this.map ?? null) : null)"
ActiveChanged(s) == SetMap(s, IF s.active THEN s.map ELSE 0)

\* Interaction.setActive(active): the change listener runs when the value changes.
SetActiveTo(s, b) == IF s.active = b THEN s ELSE ActiveChanged([s EXCEPT !.active = b])

\* The host calls setActive.
SetActive ==
    \E b \in BOOLEAN :
        /\ Assign(SetActiveTo(Self, b))
        /\ lastOp' = Op("active", << >>, FALSE)

\* The host calls map.addInteraction(interaction), which calls setMap(map).
AddInteraction ==
    /\ "OSMWaySnap" \notin mapInteractions
    /\ Assign(SetMap([Self EXCEPT !.mapInteractions = @ \cup {"OSMWaySnap"}], TheMap))
    /\ lastOp' = Op("add", << >>, FALSE)

\* The host calls map.removeInteraction(interaction), which calls setMap(null).
RemoveInteraction ==
    /\ "OSMWaySnap" \in mapInteractions
    /\ Assign(SetMap([Self EXCEPT !.mapInteractions = @ \ {"OSMWaySnap"}], 0))
    /\ lastOp' = Op("remove", << >>, FALSE)

\* The map hands a pointer move to the interactions that are active and have it as map.
MapPointerMove == active /\ map = TheMap /\ PointerMove

\* The map hands a click to the interactions that are active and have it as map.
MapClick == active /\ map = TheMap /\ Click

\* The provider loads one more way, or none, and notifies the listeners there are.
WaySourceLoadEnd ==
    \E n \in {waysLoaded, Min(waysLoaded + 1, Len(AllWays))} :
        /\ Assign(IF loadListeners > 0
                  THEN WaysFeaturesLoadEnded([Self EXCEPT !.waysLoaded = n])
                  ELSE [Self EXCEPT !.waysLoaded = n])
        /\ lastOp' = Op("load", << >>, FALSE)

NextOnMap ==
    \/ MapPointerMove
    \/ MapClick
    \/ WaySourceLoadEnd
    \/ SetActive
    \/ AddInteraction
    \/ RemoveInteraction

SpecOnMap == Init /\ [][NextOnMap]_vars

----------------------------------------------------------------------------
(* The OSM way source (src/src/source.ts) *)

\* Extents the map view asks the source to load: five apart from each other, and one
\* over three of them.
ViewExtents ==
    { <<0, 0, 1, 1>>, <<4, 0, 5, 1>>, <<8, 0, 9, 1>>, <<12, 0, 13, 1>>, <<0, 4, 1, 5>>,
      <<0, 0, 9, 1>> }

\* Resolutions of the map view.
Resolutions == {1, 2}

\* options.maximumResolution, options.fetchBufferSize, options.cachedFeaturesCount
MaximumResolution == 1
FetchBufferSize == 1
CachedFeaturesCount == 2

\* containsExtent(extent1, extent2)
ContainsExtent(extent1, extent2) ==
    /\ extent1[1] <= extent2[1] /\ extent2[3] <= extent1[3]
    /\ extent1[2] <= extent2[2] /\ extent2[4] <= extent1[4]

\* buffer(extent, value)
Buffer(extent, value) ==
    << extent[1] - value, extent[2] - value, extent[3] + value, extent[4] + value >>

\* The ids of the ways the Overpass API returns for an extent: way k lies at [4(k - 1), 0].
WaysIn(extent) ==
    {AllWays[i].id : i \in {k \in 1..Len(AllWays) :
        /\ extent[1] <= 4 * (k - 1) /\ 4 * (k - 1) <= extent[3]
        /\ extent[2] <= 0 /\ 0 <= extent[4]}}

\* The source as one record
WaySource ==
    [ busy |-> busy, loadedExtents |-> loadedExtents, osmFeatures |-> osmFeatures,
      fetches |-> fetches, withinBounds |-> TRUE ]

\* "if (this.getFeatures().length > this.options.cachedFeaturesCount) { ... }"
ClearIfFull(w) ==
    IF Cardinality(w.osmFeatures) > CachedFeaturesCount
    THEN [w EXCEPT !.osmFeatures = {}, !.loadedExtents = {}]
    ELSE w

\* fetchFeatures up to its await: the source is busy and OSMWays.fetch is in progress.
FetchFeatures(w, extent) ==
    IF Len(w.fetches) >= MaxFetches THEN [w EXCEPT !.withinBounds = FALSE]
    ELSE [ClearIfFull([w EXCEPT !.busy = TRUE])
             EXCEPT !.fetches = Append(@, IF FetchBufferSize # 0
                                          THEN Buffer(extent, FetchBufferSize) ELSE extent)]

\* super.loadFeatures with the bbox strategy: the loader is called for the extent, and
\* the extent is recorded as loaded.
SuperLoadFeatures(w, extent) ==
    [FetchFeatures(w, extent) EXCEPT !.loadedExtents = @ \cup {extent}]

\* this.removeLoadedExtent(extent)
RemoveLoadedExtent(w, extent) == [w EXCEPT !.loadedExtents = @ \ {extent}]

\* A faulty loadFeatures: _busy is not looked at.
LoadFeaturesWhileBusy(w, extent, resolution) ==
    IF resolution > MaximumResolution THEN w
    ELSE IF \E e \in w.loadedExtents : ContainsExtent(e, extent) THEN w
    ELSE RemoveLoadedExtent(SuperLoadFeatures(w, extent), extent)

LoadFeatures(w, extent, resolution) ==
    IF w.busy THEN w
    ELSE IF resolution > MaximumResolution THEN w
    ELSE IF \E e \in w.loadedExtents : ContainsExtent(e, extent) THEN w
    ELSE RemoveLoadedExtent(SuperLoadFeatures(w, extent), extent)

\* The fetch at position i is no longer in progress.
Settled(w, i) ==
    [w EXCEPT !.fetches = SubSeq(@, 1, i - 1) \o SubSeq(@, i + 1, Len(@))]

\* fetchFeatures after its await, when OSMWays.fetch has returned features
FetchReturned(w, i) ==
    [Settled(w, i) EXCEPT !.osmFeatures = @ \cup WaysIn(w.fetches[i]),
                          !.loadedExtents = @ \cup {w.fetches[i]},
                          !.busy = FALSE]

\* fetchFeatures after its await, when OSMWays.fetch has thrown: catch, then finally
FetchThrew(w, i) == [Settled(w, i) EXCEPT !.busy = FALSE]

AssignWaySource(w, op) ==
    /\ w.withinBounds
    /\ busy' = w.busy
    /\ loadedExtents' = w.loadedExtents
    /\ osmFeatures' = w.osmFeatures
    /\ fetches' = w.fetches
    /\ sourceOp' = op
    /\ UNCHANGED interactionVars
    /\ UNCHANGED utilsCall

\* The map view calls loadFeatures.
CallLoadFeatures ==
    \E extent \in ViewExtents, resolution \in Resolutions :
        AssignWaySource(LoadFeatures(WaySource, extent, resolution), "loadFeatures")

\* A fetch in progress returns its features.
FetchSucceeds ==
    \E i \in 1..Len(fetches) : AssignWaySource(FetchReturned(WaySource, i), "fetched")

\* A fetch in progress fails.
FetchFails ==
    \E i \in 1..Len(fetches) : AssignWaySource(FetchThrew(WaySource, i), "failed")

NextWaySource ==
    \/ CallLoadFeatures
    \/ FetchSucceeds
    \/ FetchFails

SpecWaySource == Init /\ [][NextWaySource]_vars

\* The methods of LineStringUtils called on their own, once, on every input of a bounded
\* set.

\* Coordinates and line strings given to split
SplitCoordinates == (0..MaxSplitXY) \X (0..MaxSplitXY)

SplitLineStrings == UNION {[1..n -> SplitCoordinates] : n \in 1..MaxSplitLen}

\* Closed loops given to getShorterPathOnLoop: a square, a rectangle, and rectangles with
\* a vertex more on a long side; the segments are parallel to the axes, so that getLength
\* is a whole number.
Loops ==
    { << <<0, 0>>, <<1, 0>>, <<1, 1>>, <<0, 1>>, <<0, 0>> >>,
      << <<0, 0>>, <<2, 0>>, <<2, 1>>, <<0, 1>>, <<0, 0>> >>,
      << <<0, 0>>, <<1, 0>>, <<2, 0>>, <<2, 1>>, <<0, 1>>, <<0, 0>> >>,
      << <<2, 0>>, <<3, 0>>, <<3, 1>>, <<2, 1>>, <<2, 0>> >>,
      << <<0, 0>>, <<3, 0>>, <<3, 1>>, <<1, 1>>, <<0, 1>>, <<0, 0>> >> }

CallSplit ==
    \E lineString \in SplitLineStrings, coordinate \in SplitCoordinates :
        /\ utilsCall = NoCall
        /\ utilsCall' = [method |-> "split", lineString |-> lineString,
                         coordinate |-> coordinate, fromIdx |-> 0, toIdx |-> 0,
                         returned |-> Split(lineString, coordinate)]
        /\ UNCHANGED interactionVars
        /\ UNCHANGED waySourceVars

CallGetShorterPathOnLoop ==
    \E lineString \in Loops :
        \E fromIdx, toIdx \in 0..(Len(lineString) - 1) :
            /\ utilsCall = NoCall
            /\ utilsCall' = [method |-> "getShorterPathOnLoop", lineString |-> lineString,
                             coordinate |-> << >>, fromIdx |-> fromIdx, toIdx |-> toIdx,
                             returned |-> GetShorterPathOnLoop(lineString, fromIdx, toIdx)]
            /\ UNCHANGED interactionVars
            /\ UNCHANGED waySourceVars

NextLineStringUtils ==
    \/ CallSplit
    \/ CallGetShorterPathOnLoop

SpecLineStringUtils == Init /\ [][NextLineStringUtils]_vars

----------------------------------------------------------------------------
(* Properties *)

\* The step is a click handled while the committed vertex list holds vertices.
ClickWhileActive == coordinates # << >> /\ lastOp'.kind = "click"

\* The step is a click handled while the committed vertex list is empty.
ClickWhileIdle == coordinates = << >> /\ lastOp'.kind = "click"

\* Every draft the way source holds after the step was there before it.
NoDraftCreated ==
    /\ draftOriginalLine' \in {draftOriginalLine, None}
    /\ \A i \in 1..Len(wayDrafts') : \E j \in 1..Len(wayDrafts) : wayDrafts'[i] = wayDrafts[j]

(* C1: session exclusivity.  A click handled while the committed vertex list is       *)
(* non-empty, whatever its coordinate, starts no session: the active feature stays    *)
(* the same feature or the session ends, no draft of an original line is created,     *)
(* and every other feature of the target source keeps its place and its vertices.     *)
C1_SessionExclusivity ==
    [][ClickWhileActive =>
          /\ activeFeature' \in {activeFeature, 0}
          /\ sessions' = sessions
          /\ NoDraftCreated
          /\ \A f \in source \ {activeFeature} : f \in source' /\ geometry'[f] = geometry[f]
      ]_vars

\* A click on the untouched initial polyline, edit allowed, in the course of a creation
\* that has committed two vertices or more: the created feature is still the active one.
C1_Witness ==
    /\ lastOp.kind = "click"
    /\ allowEdit
    /\ activeFeature = 2
    /\ Len(coordinates) >= 2
    /\ 1 \in source /\ geometry[1] = InitialTarget
    /\ ContainsXY(geometry[1], lastOp.coordinate)

\* The coordinate of the click the step handles.
Clicked == lastOp'.coordinate

\* The tip: the last coordinate of the geometry of the active feature.
Tip == GetLastCoordinate(geometry[activeFeature])

\* While vertices are committed, they are the vertices of the active feature.
ActiveGeometryIsCommitted ==
    coordinates # << >> => activeFeature # 0 /\ geometry[activeFeature] = coordinates

(* C2: creation start.  A click handled while the committed vertex list is empty,      *)
(* with allowCreate set and no edit entry due (allowEdit unset, or no feature of the   *)
(* target source under the click), is consumed and leaves exactly one committed        *)
(* vertex: the coordinate of the sketch point if there is a sketch point, the          *)
(* coordinate of the click otherwise; the active feature has that one vertex.          *)
C2_CreationStart ==
    [][(/\ ClickWhileIdle
        /\ allowCreate
        /\ ~(allowEdit /\ OverlappedFeatures(Self, Clicked) # {}))
       => /\ coordinates' = << IF sketchPoint # None THEN sketchPoint[1] ELSE Clicked >>
          /\ activeFeature' # 0
          /\ geometry'[activeFeature'] = coordinates'
          /\ ~lastOp'.passed
      ]_vars

\* A creation has just started on the coordinate of the sketch point, and the click was
\* made at another coordinate.
C2_Witness ==
    /\ lastOp.kind = "click" /\ ~lastOp.passed
    /\ Len(coordinates) = 1
    /\ draftOriginalLine = None
    /\ sketchPoint # None
    /\ coordinates[1] = sketchPoint[1]
    /\ coordinates[1] # lastOp.coordinate

(* C3: edit entry at a vertex.  A click handled while the committed vertex list is     *)
(* empty, with allowEdit set and a feature of the target source under it, makes one    *)
(* of the features under it the active feature; when the coordinate of the click is    *)
(* vertex i (the first that equals it) of that feature's vertices v0..vn, the          *)
(* committed vertex list and the feature's geometry become v0..vi and the draft of     *)
(* the original line, held by the way source, has the vertices vi..vn.                 *)
C3_EditEntryAtVertex ==
    [][(ClickWhileIdle /\ allowEdit /\ OverlappedFeatures(Self, Clicked) # {})
       => /\ activeFeature' \in OverlappedFeatures(Self, Clicked)
          /\ activeFeature' \in source'
          /\ \A i \in 1..Len(geometry[activeFeature']) :
                (/\ geometry[activeFeature'][i] = Clicked
                 /\ \A j \in 1..(i - 1) : geometry[activeFeature'][j] # Clicked)
                => /\ coordinates' = SubSeq(geometry[activeFeature'], 1, i)
                   /\ geometry'[activeFeature'] = SubSeq(geometry[activeFeature'], 1, i)
                   /\ draftOriginalLine' # None
                   /\ draftOriginalLine'[1].coords =
                          SubSeq(geometry[activeFeature'], i, Len(geometry[activeFeature']))
                   /\ \E k \in 1..Len(wayDrafts') : wayDrafts'[k] = draftOriginalLine'[1]
      ]_vars

\* The click on the middle vertex of the initial polyline [A, B, C]: committed [A, B],
\* draft [B, C].
C3_Witness ==
    /\ lastOp.kind = "click" /\ lastOp.coordinate = InitialTarget[2]
    /\ activeFeature = 1
    /\ coordinates = SubSeq(InitialTarget, 1, 2)
    /\ geometry[1] = SubSeq(InitialTarget, 1, 2)
    /\ draftOriginalLine # None
    /\ draftOriginalLine[1].coords = SubSeq(InitialTarget, 2, 3)

(* C4: extend commit.  A click handled while vertices L are committed, at a            *)
(* coordinate other than the tip, with a sketch line S, is consumed and gives the      *)
(* active feature the vertices L followed by S without its first coordinate, so that   *)
(* its tip is the last coordinate of S; the committed vertex list is that same list,   *)
(* or, in an edit session that the commit ends by merging, empty.                      *)
C4_ExtendCommit ==
    [][(ClickWhileActive /\ Clicked # Tip /\ sketchLine # None)
       => /\ activeFeature \in source'
          /\ geometry'[activeFeature] = coordinates \o Tail(sketchLine[1])
          /\ GetLastCoordinate(geometry'[activeFeature]) = sketchLine[1][Len(sketchLine[1])]
          /\ \/ activeFeature' = activeFeature
                /\ coordinates' = coordinates \o Tail(sketchLine[1])
             \/ draftOriginalLine # None /\ activeFeature' = 0 /\ coordinates' = << >>
          /\ ~lastOp'.passed
      ]_vars

\* A commit has just appended a vertex that is not the coordinate of the click.
C4_Witness ==
    /\ lastOp.kind = "click" /\ ~lastOp.passed
    /\ Len(coordinates) >= 2
    /\ GetLastCoordinate(coordinates) # lastOp.coordinate
    /\ geometry[activeFeature] = coordinates

(* C5: finish by a click on the tip.  A click handled while vertices are committed,    *)
(* at the coordinate of the tip, is consumed and ends the session: no feature is       *)
(* active, no vertex is committed, the target source holds the features it held and    *)
(* each, the one that was active included, has the vertices it had before the click.   *)
C5_FinishByTipClick ==
    [][(ClickWhileActive /\ Clicked = Tip)
       => /\ activeFeature' = 0
          /\ coordinates' = << >>
          /\ source' = source
          /\ \A f \in source : geometry'[f] = geometry[f]
          /\ activeFeature \in source => geometry'[activeFeature] = coordinates
          /\ ~lastOp'.passed
      ]_vars

\* A click on the tip of the created feature has just ended the session; the feature is
\* in the target source.
C5_Witness ==
    /\ lastOp.kind = "click" /\ ~lastOp.passed
    /\ activeFeature = 0 /\ coordinates = << >>
    /\ 2 \in source
    /\ GetLastCoordinate(geometry[2]) = lastOp.coordinate

(* C6: finishEditing() is equivalent to a click on the tip.  In every reachable state  *)
(* with committed vertices, sketch line and draft of the original line present or      *)
(* not, the state a click at the coordinate of the tip leaves (session fields, target  *)
(* source, way source, events dispatched) is the state finishEditing() leaves.         *)
C6_FinishEquivalentToTipClick ==
    coordinates # << >> =>
        \A overlapped \in OverlappedFeatures(Self, Tip) \cup {0} :
            HandleClick(Self, Tip, overlapped).state = FinishEditing(Self)

\* A session in edit mode, in mid-sketch: a sketch line is shown and the draft of the
\* original line is in the way source; finishing removes the draft and ends the session.
C6_Witness ==
    /\ coordinates # << >>
    /\ sketchLine # None
    /\ draftOriginalLine # None
    /\ Len(FinishEditing(Self).wayDrafts) < Len(wayDrafts)
    /\ FinishEditing(Self).activeFeature = 0

\* Number of events of the type among the events, and number of those carrying feature f.
EventTotal(es, type) == Cardinality({k \in 1..Len(es) : es[k].type = type})
EventCount(es, type, f) ==
    Cardinality({k \in 1..Len(es) : es[k].type = type /\ es[k].feature = f})

\* The step is a click that starts a session: handled with no committed vertex, consumed.
SessionStart == ClickWhileIdle /\ ~lastOp'.passed

\* The step has put a draft of an original line into the way source: enterEditMode ran.
EditEntered == Len(wayDrafts') > Len(wayDrafts)

CommitsVertices ==
    /\ ClickWhileActive
    /\ Len(geometry'[activeFeature]) > Len(coordinates)

C10_PermissionGating ==
    [][ClickWhileIdle =>
          /\ EditEntered => allowEdit
          /\ (coordinates' # << >> /\ ~EditEntered) => allowCreate
          /\ (~allowCreate /\ (~allowEdit \/ OverlappedFeatures(Self, Clicked) = {})) =>
                /\ lastOp'.passed
                /\ events' = << >>
                /\ UNCHANGED << allowEdit, allowCreate, coordinates, activeFeature, geometry,
                                source, sketchPoint, sketchLine, draftOriginalLine, wayDrafts,
                                waysLoaded, candidateLines, candidatePoints,
                                mergingDraftOriginalLine, sessions, keptPrefix >>
      ]_vars

\* With both permissions unset, a click on the initial polyline has just been passed on.
C10_Witness ==
    /\ lastOp.kind = "click" /\ lastOp.passed
    /\ ~allowEdit /\ ~allowCreate
    /\ coordinates = << >> /\ activeFeature = 0
    /\ OverlappedFeatures(Self, lastOp.coordinate) # {}

C12_SketchPointOverEditableLine ==
    (/\ lastOp.kind = "move"
     /\ ~allowCreate /\ allowEdit
     /\ activeFeature = 0 /\ coordinates = << >>)
    => IF OverlappedFeatures(Self, lastOp.coordinate) # {}
       THEN sketchPoint = Some(lastOp.coordinate)
       ELSE sketchPoint = None

(* C13: edit entry between vertices.  A click handled while the committed vertex list  *)
(* is empty, with allowEdit set, at a coordinate c that is no vertex of the feature    *)
(* v0..vn it lands on and lies on the segment from vi to vi+1 (the first such),        *)
(* leaves the committed vertices v0..vi, c and the draft of the original line          *)
(* c, vi+1..vn.                                                                        *)
C13_EditEntryBetweenVertices ==
    [][(ClickWhileIdle /\ allowEdit /\ OverlappedFeatures(Self, Clicked) # {})
       => \A i \in 1..(Len(geometry[activeFeature']) - 1) :
             (/\ \A j \in 1..Len(geometry[activeFeature']) :
                     geometry[activeFeature'][j] # Clicked
              /\ OnSegment(geometry[activeFeature'][i], geometry[activeFeature'][i + 1],
                           Clicked)
              /\ \A j \in 1..(i - 1) :
                     ~OnSegment(geometry[activeFeature'][j], geometry[activeFeature'][j + 1],
                                Clicked))
             => /\ coordinates' = SubSeq(geometry[activeFeature'], 1, i) \o << Clicked >>
                /\ draftOriginalLine' # None
                /\ draftOriginalLine'[1].coords =
                       << Clicked >>
                           \o SubSeq(geometry[activeFeature'], i + 1,
                                     Len(geometry[activeFeature']))
      ]_vars

\* a is a prefix of b
IsPrefix(a, b) == Len(a) <= Len(b) /\ SubSeq(b, 1, Len(a)) = a

\* An edit session is running: a feature is active and a draft of its original line is held.
EditSession == activeFeature # 0 /\ draftOriginalLine # None

\* The step ends an edit session otherwise than by a commit that merges: by a click on
\* the tip or by finishEditing().
FinishesWithoutMerge ==
    /\ draftOriginalLine # None
    /\ \/ lastOp'.kind = "finish"
       \/ lastOp'.kind = "click" /\ coordinates # << >> /\ Clicked = Tip

(* C14: redirect outcome.  When an edit session is ended by a click on the tip or by   *)
(* finishEditing(), the edited feature stays in the target source with exactly the     *)
(* committed vertices, which begin with the prefix kept at edit entry; nothing of the  *)
(* draft is appended and the draft leaves the way source.  The edit entry and every    *)
(* step of the edit session leave the target source holding the same features, so      *)
(* the edited feature is not added a second time.                                      *)
C14_RedirectOutcome ==
    [][/\ (EditEntered \/ EditSession) => source' = source
       /\ FinishesWithoutMerge =>
            /\ activeFeature' = 0
            /\ activeFeature \in source'
            /\ geometry'[activeFeature] = coordinates
            /\ IsPrefix(keptPrefix, coordinates)
            /\ draftOriginalLine' = None
            /\ \A k \in 1..Len(wayDrafts') : wayDrafts'[k] # draftOriginalLine[1]
      ]_vars

\* The initial polyline [A, B, C], entered at B and redirected to [1, 1], has just been
\* finished: it is [A, B, [1, 1]], alone in the target source, and the draft is gone.
C14_Witness ==
    /\ lastOp.kind \in {"click", "finish"}
    /\ activeFeature = 0
    /\ source = {1}
    /\ geometry[1] = SubSeq(InitialTarget, 1, 2) \o << <<1, 1>> >>
    /\ wayDrafts = << >>

\* The coordinate of the pointer move the step handles
Moved == lastOp'.coordinate

\* The preview of the move before any extension: the walk on the first candidate that
\* gives one, or the straight line from the tip.
Preview ==
    SketchCoors(Self, Moved,
        SelectSeq(candidateLines, LAMBDA feature : ContainsXY(feature.coords, Moved)))

\* The draft's coordinates strictly after p: after the first vertex equal to p, or, when
\* p is no vertex, after the first segment p lies on.
DraftAfter(draft, p) ==
    IF \E k \in 1..Len(draft) : draft[k] = p
    THEN SubSeq(draft, (CHOOSE k \in 1..Len(draft) :
                            draft[k] = p /\ \A j \in 1..(k - 1) : draft[j] # p) + 1, Len(draft))
    ELSE SubSeq(draft, (CHOOSE k \in 1..(Len(draft) - 1) :
                            /\ OnSegment(draft[k], draft[k + 1], p)
                            /\ \A j \in 1..(k - 1) : ~OnSegment(draft[j], draft[j + 1], p)) + 1,
                Len(draft))

\* The step is a pointer move of an edit session whose preview ends on the draft.
MoveOntoDraft ==
    /\ lastOp'.kind = "move"
    /\ EditSession /\ coordinates # << >>
    /\ Preview # << >>
    /\ ContainsXY(draftOriginalLine[1].coords, GetLastCoordinate(Preview))

\* What C15 says of the step
MergePreview ==
    /\ sketchLine' = Some(Preview \o DraftAfter(draftOriginalLine[1].coords,
                                                 GetLastCoordinate(Preview)))
    /\ GetLastCoordinate(sketchLine'[1]) = GetLastCoordinate(draftOriginalLine[1].coords)
    /\ mergingDraftOriginalLine'

(* C15: merge preview.  On a pointer move of an edit session made while allowEdit is  *)
(* set, when the last point p of the preview lies on the draft of the original line,  *)
(* the sketch line is the preview followed by the draft's coordinates strictly after  *)
(* p, it ends at the original line's last vertex, and mergingDraftOriginalLine is set. *)
C15_MergePreview == [][(MoveOntoDraft /\ allowEdit) => MergePreview]_vars

\* From an edit entered at [0, 0] a move to [1, 0], in the middle of the draft's first
\* segment, has given the sketch line the rest of the draft.
C15_Witness ==
    /\ lastOp.kind = "move" /\ lastOp.coordinate = <<1, 0>>
    /\ allowEdit /\ draftOriginalLine # None
    /\ coordinates = << <<0, 0>> >>
    /\ sketchLine = Some(<< <<0, 0>>, <<1, 0>>, <<2, 0>>, <<2, 1>> >>)
    /\ mergingDraftOriginalLine

\* C15 as stated: the same of every pointer move of an edit session, allowEdit set or not.
C15_MergePreviewInAnyEditSession == [][MoveOntoDraft => MergePreview]_vars

\* The step is a click of an edit session that commits the sketch line while
\* mergingDraftOriginalLine is set.
CommitWhileMerging ==
    /\ lastOp'.kind = "click"
    /\ EditSession /\ coordinates # << >> /\ Clicked # Tip
    /\ sketchLine # None
    /\ mergingDraftOriginalLine

(* C16: merge commit auto-finishes.  A commit made while mergingDraftOriginalLine is   *)
(* set appends the sketch line and ends the session within the click: afterwards no    *)
(* feature is active, the draft is out of the way source, and the edited feature is    *)
(* the kept prefix, then the sketched vertices, then the draft's tail, so that it ends *)
(* at the original line's last vertex.                                                 *)
C16_MergeCommitAutoFinishes ==
    [][CommitWhileMerging =>
            /\ activeFeature' = 0 /\ coordinates' = << >>
            /\ draftOriginalLine' = None
            /\ \A k \in 1..Len(wayDrafts') : wayDrafts'[k] # draftOriginalLine[1]
            /\ geometry'[activeFeature] = coordinates \o Tail(sketchLine[1])
            /\ IsPrefix(keptPrefix, geometry'[activeFeature])
            /\ GetLastCoordinate(geometry'[activeFeature])
                   = GetLastCoordinate(draftOriginalLine[1].coords)
      ]_vars

\* The step stays within one session: a feature is active before and after it, and no
\* session has started in between.
WithinSession == activeFeature # 0 /\ activeFeature' = activeFeature /\ sessions' = sessions

(* C17: commit monotonicity.  Every step within one session leaves the committed list  *)
(* held before it as a prefix of the committed list held after it, so vertex 0 stays   *)
(* as it is; and in an edit session the list kept at edit entry stays a prefix of the  *)
(* committed list and of the active feature's geometry.                                *)
C17_CommitMonotonicity ==
    [][WithinSession =>
            /\ IsPrefix(coordinates, coordinates')
            /\ coordinates # << >> => coordinates'[1] = coordinates[1]
            /\ keptPrefix' = keptPrefix
            /\ draftOriginalLine' # None =>
                   /\ IsPrefix(keptPrefix, coordinates')
                   /\ IsPrefix(keptPrefix, geometry'[activeFeature'])
      ]_vars

\* An edit session entered at [2, 0] has committed [1, 1] after the kept [A, B].
C17_Witness ==
    /\ lastOp.kind = "click"
    /\ activeFeature = 1 /\ draftOriginalLine # None
    /\ keptPrefix = SubSeq(InitialTarget, 1, 2)
    /\ coordinates = keptPrefix \o << <<1, 1>> >>
    /\ geometry[1] = coordinates

\* No two consecutive elements of the list are equal.
NoRepeatedNeighbour(list) == \A k \in 1..(Len(list) - 1) : list[k] # list[k + 1]

NetworkUpdate == lastOp'.kind = "load"

\* The lines of the way source, as it is after the step, that pass through the tip
LinesThroughTip ==
    SelectSeq(WaySourceFeatures([Self EXCEPT !.waysLoaded = waysLoaded']),
              LAMBDA feature : ContainsXY(feature.coords, Tip))

(* C19: network update handling.  featuresloadend may come in any state.  With no      *)
(* active feature it changes nothing of the interaction.  With an active feature it    *)
(* sets the candidate lines to the lines of the way source through the tip and the     *)
(* candidate points to their vertices, and leaves the committed list, the active       *)
(* feature, the draft, the target source and its geometries as they are and fits no    *)
(* view.                                                                               *)
C19_NetworkUpdateHandling ==
    [][NetworkUpdate =>
            /\ UNCHANGED << coordinates, activeFeature, draftOriginalLine, wayDrafts,
                            source, geometry, allowEdit, allowCreate, sketchPoint >>
            /\ fits' = << >>
            /\ activeFeature = 0 =>
                   UNCHANGED << sketchLine, candidateLines, candidatePoints,
                                mergingDraftOriginalLine >>
            /\ activeFeature # 0 =>
                   /\ candidateLines' = LinesThroughTip
                   /\ candidatePoints' =
                          Flat([i \in 1..Len(LinesThroughTip) |-> LinesThroughTip[i].coords])
      ]_vars

\* In a session whose tip is [2, 1] the way from [2, 1] to [2, 2] has been loaded and is
\* now a candidate line.
C19_Witness ==
    /\ lastOp.kind = "load"
    /\ activeFeature # 0 /\ coordinates # << >>
    /\ GetLastCoordinate(coordinates) = <<2, 1>>
    /\ waysLoaded = Len(AllWays)
    /\ \E i \in 1..Len(candidateLines) : candidateLines[i].coords = AllWays[Len(AllWays)].coords

\* No vertex is committed and no feature is active.
Idle == activeFeature = 0 /\ coordinates = << >>

(* C20: the way source holds the provider's ways and at most one draft of an original  *)
(* line; a draft is there only during an edit session, where it is the draft the       *)
(* interaction holds; and while the interaction is Idle the way source holds no draft. *)
C20_DraftOnlyDuringEditSession ==
    /\ Len(wayDrafts) <= 1
    /\ wayDrafts # << >> => EditSession /\ wayDrafts = << draftOriginalLine[1] >>
    /\ Idle => wayDrafts = << >>

\* split was called on its own
SplitCalled == utilsCall.method = "split"

\* The coordinate given to split is a vertex of the line string given to it.
SplitAtVertex ==
    \E k \in 1..Len(utilsCall.lineString) : utilsCall.lineString[k] = utilsCall.coordinate

\* The 1-based numbers of the segments of the line string that hold the coordinate
SplitSegments ==
    {k \in 1..(Len(utilsCall.lineString) - 1) :
        OnSegment(utilsCall.lineString[k], utilsCall.lineString[k + 1], utilsCall.coordinate)}

\* The line string with the coordinate put in after its k-th vertex
InsertedAfter(k) ==
    SubSeq(utilsCall.lineString, 1, k) \o << utilsCall.coordinate >>
        \o SubSeq(utilsCall.lineString, k + 1, Len(utilsCall.lineString))

(* C21: split inserts on a segment.  For a coordinate that is no vertex of the line    *)
(* string and lies on one of its segments, split returns a line string of one vertex   *)
(* more: the given one with the coordinate put in between the ends of the first        *)
(* segment that holds it, every original vertex kept in its place and order.           *)
C21_SplitInsertsOnSegment ==
    (SplitCalled /\ ~SplitAtVertex /\ SplitSegments # {}) =>
        /\ Len(utilsCall.returned) = Len(utilsCall.lineString) + 1
        /\ utilsCall.returned = InsertedAfter(LeastOf(SplitSegments))
        /\ utilsCall.returned[LeastOf(SplitSegments) + 1] = utilsCall.coordinate
        /\ \A k \in 1..Len(utilsCall.lineString) :
               utilsCall.lineString[k]
                   = utilsCall.returned[IF k <= LeastOf(SplitSegments) THEN k ELSE k + 1]

\* [1, 0] has been put into the line string from [0, 0] over [2, 0] and back to [0, 0],
\* whose two segments both hold it: it is in the first.
C21_Witness ==
    /\ SplitCalled
    /\ utilsCall.lineString = << <<0, 0>>, <<2, 0>>, <<0, 0>> >>
    /\ utilsCall.coordinate = <<1, 0>>
    /\ utilsCall.returned = << <<0, 0>>, <<1, 0>>, <<2, 0>>, <<0, 0>> >>

\* No two elements of the list are equal.
PairwiseDistinct(list) == \A j, k \in 1..Len(list) : j # k => list[j] # list[k]

(* C22: split leaves the input unchanged.  For a line string of pairwise distinct      *)
(* vertices and a coordinate that is one of its vertices or lies on none of its        *)
(* segments, split returns the same vertex sequence, in which no coordinate is         *)
(* repeated.                                                                           *)
C22_SplitLeavesInputUnchanged ==
    (SplitCalled /\ PairwiseDistinct(utilsCall.lineString)
                 /\ (SplitAtVertex \/ SplitSegments = {})) =>
        /\ utilsCall.returned = utilsCall.lineString
        /\ PairwiseDistinct(utilsCall.returned)

(* C23: split idempotence.  For a coordinate lying on the line string, splitting the   *)
(* result of split at the same coordinate again gives the same vertex sequence.        *)
C23_SplitIdempotence ==
    (SplitCalled /\ ContainsXY(utilsCall.lineString, utilsCall.coordinate)) =>
        Split(utilsCall.returned, utilsCall.coordinate) = utilsCall.returned

\* A split that did put the coordinate in: [1, 1] into the diagonal from [0, 0] to [2, 2].
C23_Witness ==
    /\ SplitCalled
    /\ utilsCall.lineString = << <<0, 0>>, <<2, 2>> >>
    /\ utilsCall.coordinate = <<1, 1>>
    /\ utilsCall.returned = << <<0, 0>>, <<1, 1>>, <<2, 2>> >>
    /\ Split(utilsCall.returned, utilsCall.coordinate) = utilsCall.returned

\* getShorterPathOnLoop was called on its own
ShorterPathCalled == utilsCall.method = "getShorterPathOnLoop"

\* Number of distinct places of the loop: its last coordinate is its first again.
Ring == Len(utilsCall.lineString) - 1

\* The coordinate of the loop at a 0-based index taken round the ring
RingCoordinate(index) == utilsCall.lineString[(index % Ring) + 1]

\* Steps of the walk by increasing index from fromIdx to toIdx, and by decreasing index
ForwardSteps ==
    IF utilsCall.fromIdx < utilsCall.toIdx THEN utilsCall.toIdx - utilsCall.fromIdx
    ELSE (Ring - utilsCall.fromIdx) + utilsCall.toIdx

BackwardSteps ==
    IF utilsCall.toIdx < utilsCall.fromIdx THEN utilsCall.fromIdx - utilsCall.toIdx
    ELSE (Ring - utilsCall.toIdx) + utilsCall.fromIdx

ForwardWalk == [i \in 1..(ForwardSteps + 1) |-> RingCoordinate(utilsCall.fromIdx + i - 1)]

BackwardWalk ==
    [i \in 1..(BackwardSteps + 1) |-> RingCoordinate(utilsCall.fromIdx + 2 * Ring - (i - 1))]

RECURSIVE AxisLength(_)
\* Length of a walk whose segments are parallel to the axes
AxisLength(walk) ==
    IF Len(walk) < 2 THEN 0
    ELSE Max(walk[1][1] - walk[2][1], walk[2][1] - walk[1][1])
         + Max(walk[1][2] - walk[2][2], walk[2][2] - walk[1][2])
         + AxisLength(Tail(walk))

\* The two indices are next to each other on the ring.
AdjacentIndices ==
    \/ utilsCall.fromIdx - utilsCall.toIdx \in {1, -1}
    \/ (utilsCall.fromIdx - utilsCall.toIdx) % Ring \in {1, Ring - 1}

EquallyLongWalks ==
    /\ ShorterPathCalled /\ utilsCall.fromIdx # utilsCall.toIdx
    /\ AxisLength(ForwardWalk) = AxisLength(BackwardWalk)

(* C25: when the walk by increasing index and the walk by decreasing index between    *)
(* two distinct indices of a loop are equally long, getShorterPathOnLoop returns the   *)
(* walk by decreasing index.                                                           *)
C25_TieGivesBackwardWalk == EquallyLongWalks => utilsCall.returned = BackwardWalk

\* On the unit square, from index 0 to the opposite corner at index 2, both walks have
\* length 2 and differ; the backward one, over [0, 1], is returned.
C25_Witness ==
    /\ EquallyLongWalks
    /\ utilsCall.lineString = << <<0, 0>>, <<1, 0>>, <<1, 1>>, <<0, 1>>, <<0, 0>> >>
    /\ utilsCall.fromIdx = 0 /\ utilsCall.toIdx = 2
    /\ ForwardWalk = << <<0, 0>>, <<1, 0>>, <<1, 1>> >>
    /\ utilsCall.returned = << <<0, 0>>, <<0, 1>>, <<1, 1>> >>

\* C25 as stated: on equally long walks the walk by increasing index is returned.
C25_TieGivesForwardWalk == EquallyLongWalks => utilsCall.returned = ForwardWalk

\* The step ends a session by finishEditing() or by a click on the tip.
FinishesAtTip ==
    /\ activeFeature # 0
    /\ \/ lastOp'.kind = "finish"
       \/ lastOp'.kind = "click" /\ coordinates # << >> /\ Clicked = Tip

(* C26: viewport fitting is gated by autoFocus.  No step taken while autoFocus is      *)
(* unset fits the view; finishEditing() with no active feature fits nothing; and a     *)
(* session ended by finishEditing() or by a click on the tip fits the view only if at  *)
(* least 2 vertices are committed, and then only once, to the finished feature.        *)
C26_FitGatedByAutoFocus ==
    [][/\ ~autoFocus => fits' = << >>
       /\ (lastOp'.kind = "finish" /\ activeFeature = 0) => fits' = << >>
       /\ FinishesAtTip =>
            /\ Len(coordinates) < 2 => fits' = << >>
            /\ fits' # << >> => fits' = << BoundingExtent(coordinates) >>
      ]_vars

\* With autoFocus unset a click has committed a second vertex at a tip where the
\* candidate points off the active feature would have been fitted, and no view was fitted.
C26_Witness ==
    /\ ~autoFocus
    /\ lastOp.kind = "click"
    /\ activeFeature # 0 /\ Len(coordinates) >= 2
    /\ Len(FitCoordinates(Self)) > 1
    /\ fits = << >>

\* The step is a pointer move handled while vertices are committed.
MoveWhileActive == lastOp'.kind = "move" /\ coordinates # << >>

\* The candidate lines that hold the coordinate of the move
CandidatesUnderMove ==
    SelectSeq(candidateLines, LAMBDA feature : ContainsXY(feature.coords, Moved))

\* No candidate line under the move gives a walk from the tip to it.
NoWalkToMove ==
    \A i \in 1..Len(CandidatesUnderMove) :
        GetSketchLineCoordinates(Self, Moved, CandidatesUnderMove[i].coords) = << >>

\* The sketch line after the step begins with the tip and the coordinate of the move,
\* and is just these two unless the move is on the draft of an edit session.
StraightSketchLine ==
    /\ sketchLine' # None
    /\ Len(sketchLine'[1]) >= 2
    /\ SubSeq(sketchLine'[1], 1, 2) = << Tip, Moved >>
    /\ (draftOriginalLine = None \/ ~ContainsXY(draftOriginalLine[1].coords, Moved))
           => sketchLine'[1] = << Tip, Moved >>

(* C27: straight fallback.  After a pointer move handled while vertices are committed, *)
(* when no candidate line holds the coordinate of the move the preview is the straight *)
(* line [tip, coordinate]; when candidate lines hold it and none of them gives a walk  *)
(* from the tip, there is no sketch line.                                              *)
C27_StraightFallback ==
    [][MoveWhileActive =>
            /\ CandidatesUnderMove = << >> => StraightSketchLine
            /\ (CandidatesUnderMove # << >> /\ NoWalkToMove) => sketchLine' = None
      ]_vars

\* From the tip [0, 0], which the way from [0, 0] to [2, 0] passes, the pointer has moved
\* to [1, 1], which no candidate line holds.
C27_Witness ==
    /\ lastOp.kind = "move" /\ lastOp.coordinate = <<1, 1>>
    /\ coordinates # << >> /\ GetLastCoordinate(coordinates) = <<0, 0>>
    /\ candidateLines # << >>
    /\ sketchLine = Some(<< <<0, 0>>, <<1, 1>> >>)

\* C27 as stated: the straight line also when candidate lines hold the coordinate and
\* none of them gives a walk.
C27_StraightFallbackWheneverNoWalk ==
    [][(MoveWhileActive /\ NoWalkToMove) => StraightSketchLine]_vars

\* A candidate line is a loop: its first coordinate is its last.
LoopAmongCandidates ==
    \E i \in 1..Len(candidateLines) :
        GetFirstCoordinate(candidateLines[i].coords) = GetLastCoordinate(candidateLines[i].coords)

(* C28: no preview when re-touching the tip on a loop.  While vertices are committed   *)
(* and a candidate line is a loop, a pointer move to the tip leaves no sketch line;    *)
(* and a click that follows that move commits no vertex: the committed list stays as   *)
(* it is or the session ends, and the feature, if the target source holds it, is as   *)
(* it was.                                                                             *)
C28_NoPreviewBackAtTipOnLoop ==
    [][/\ (MoveWhileActive /\ Moved = Tip /\ LoopAmongCandidates) => sketchLine' = None
       /\ (/\ lastOp.kind = "move" /\ coordinates # << >> /\ lastOp.coordinate = Tip
           /\ LoopAmongCandidates
           /\ lastOp'.kind = "click") =>
              /\ coordinates' \in {coordinates, << >>}
              /\ activeFeature \in source' => geometry'[activeFeature] = coordinates
      ]_vars

\* On the loop through [2, 0] the pointer is back at the tip [2, 0] and no sketch line is
\* left.
C28_Witness ==
    /\ lastOp.kind = "move" /\ lastOp.coordinate = <<2, 0>>
    /\ coordinates # << >> /\ GetLastCoordinate(coordinates) = <<2, 0>>
    /\ LoopAmongCandidates
    /\ sketchLine = None

\* Where a coordinate lies along a line: 2k at its vertex k, 2k + 1 inside its segment
\* from vertex k to vertex k + 1 (the first such vertex, else the first such segment).
Place(line, x) ==
    IF \E k \in 1..Len(line) : line[k] = x
    THEN 2 * LeastOf({k \in 1..Len(line) : line[k] = x})
    ELSE 2 * LeastOf({k \in 1..(Len(line) - 1) : OnSegment(line[k], line[k + 1], x)}) + 1

\* From a to b along the line, a before b: a, the vertices strictly between, b
RunBetween(line, a, b) ==
    << a >> \o SubSeq(line, (Place(line, a) \div 2) + 1, ((Place(line, b) + 1) \div 2) - 1)
            \o << b >>

\* The walk along the line from the tip to the pointer
WalkOn(line, tip, pointer) ==
    IF Place(line, tip) < Place(line, pointer) THEN RunBetween(line, tip, pointer)
    ELSE Reverse(RunBetween(line, pointer, tip))

\* The line is no loop and holds the tip and the coordinate of the move.
OpenUnderMove(line) ==
    /\ GetFirstCoordinate(line) # GetLastCoordinate(line)
    /\ ContainsXY(line, Tip)
    /\ ContainsXY(line, Moved)

\* The walk starts at the tip, ends at the coordinate of the move and is what
\* getSketchLineCoordinates gives on the line.
WalkFromLine(walk, line) ==
    /\ walk[1] = Tip
    /\ GetLastCoordinate(walk) = Moved
    /\ GetSketchLineCoordinates(Self, Moved, line) = walk

(* C29: walk along a non-loop candidate.  On a pointer move to a coordinate other than *)
(* the tip, for every candidate line that is no loop and holds both, the preview taken *)
(* from it is the tip, the candidate's vertices between the tip and the pointer, and   *)
(* the pointer, in the order from tip to pointer (against the candidate's own order    *)
(* when the pointer comes before the tip); and when the first candidate under the      *)
(* pointer is such a line, the sketch line begins with that walk.                      *)
C29_WalkAlongOpenCandidate ==
    [][(MoveWhileActive /\ Moved # Tip) =>
            /\ \A i \in 1..Len(candidateLines) :
                   OpenUnderMove(candidateLines[i].coords) =>
                       WalkFromLine(WalkOn(candidateLines[i].coords, Tip, Moved),
                                    candidateLines[i].coords)
            /\ (CandidatesUnderMove # << >> /\ OpenUnderMove(CandidatesUnderMove[1].coords)) =>
                   /\ sketchLine' # None
                   /\ IsPrefix(WalkOn(CandidatesUnderMove[1].coords, Tip, Moved), sketchLine'[1])
      ]_vars

\* From the tip [2, 0] the pointer has moved to [1, 0], inside the way from [0, 0] to
\* [2, 0]: the walk goes against the way's order.
C29_Witness ==
    /\ lastOp.kind = "move" /\ lastOp.coordinate = <<1, 0>>
    /\ coordinates # << >> /\ GetLastCoordinate(coordinates) = <<2, 0>>
    /\ draftOriginalLine = None
    /\ candidateLines # << >> /\ candidateLines[1].coords = << <<0, 0>>, <<2, 0>> >>
    /\ sketchLine = Some(<< <<2, 0>>, <<1, 0>> >>)

\* The step is a pointer move of an edit session to a coordinate that no candidate line
\* holds and that lies on the draft of the original line.
StraightOntoDraft ==
    /\ MoveWhileActive
    /\ CandidatesUnderMove = << >>
    /\ draftOriginalLine # None
    /\ ContainsXY(draftOriginalLine[1].coords, Moved)

\* The step is a pointer move that gives a preview ending off the draft, or with no draft.
MoveOffDraft ==
    /\ MoveWhileActive
    /\ Preview # << >>
    /\ (draftOriginalLine = None
            \/ ~ContainsXY(draftOriginalLine[1].coords, GetLastCoordinate(Preview)))

(* C30: merge extension.  On a pointer move to a coordinate that no candidate line     *)
(* holds and that lies on the draft of the original line, the straight preview         *)
(* [tip, coordinate] is extended with the draft's coordinates after the coordinate and *)
(* mergingDraftOriginalLine is set when allowEdit is set; with allowEdit unset it      *)
(* stays [tip, coordinate] and the flag is left alone.  A preview that ends off the    *)
(* draft is never extended and leaves the flag alone.                                  *)
C30_MergeExtension ==
    [][/\ (StraightOntoDraft /\ allowEdit) =>
              /\ sketchLine' = Some(<< Tip, Moved >>
                                        \o DraftAfter(draftOriginalLine[1].coords, Moved))
              /\ mergingDraftOriginalLine'
       /\ (StraightOntoDraft /\ ~allowEdit) =>
              /\ sketchLine' = Some(<< Tip, Moved >>)
              /\ mergingDraftOriginalLine' = mergingDraftOriginalLine
       /\ MoveOffDraft =>
              /\ sketchLine' = Some(Preview)
              /\ mergingDraftOriginalLine' = mergingDraftOriginalLine
      ]_vars

\* A straight preview to a coordinate of the draft that no candidate line holds has been
\* extended along the draft, and the flag is set.
C30_Witness ==
    /\ lastOp.kind = "move" /\ coordinates # << >>
    /\ allowEdit /\ draftOriginalLine # None
    /\ \A i \in 1..Len(candidateLines) :
           ~ContainsXY(candidateLines[i].coords, lastOp.coordinate)
    /\ ContainsXY(draftOriginalLine[1].coords, lastOp.coordinate)
    /\ sketchLine # None /\ Len(sketchLine[1]) > 2
    /\ SubSeq(sketchLine[1], 1, 2) = << GetLastCoordinate(coordinates), lastOp.coordinate >>
    /\ mergingDraftOriginalLine

\* C30 as stated: a straight preview whose pointer lies on the draft is neither extended
\* nor flagged.
C30_MergeExtensionOnlyAfterWalk ==
    [][StraightOntoDraft =>
           /\ sketchLine' = Some(<< Tip, Moved >>)
           /\ mergingDraftOriginalLine' => mergingDraftOriginalLine
      ]_vars

\* The sketch line reaches the draft of the original line: it ends on it.
SketchLineOnDraft ==
    /\ sketchLine # None
    /\ draftOriginalLine # None
    /\ ContainsXY(draftOriginalLine[1].coords, GetLastCoordinate(sketchLine[1]))

\* The step is a click that commits a sketch line which does not reach the draft.
CommitOffDraft ==
    /\ lastOp'.kind = "click"
    /\ coordinates # << >> /\ Clicked # Tip
    /\ sketchLine # None
    /\ ~SketchLineOnDraft

(* C31: merge pending tracks the sketch line.  mergingDraftOriginalLine is set only    *)
(* while the sketch line reaches the draft of the original line; and a commit of a     *)
(* sketch line that does not reach the draft appends that sketch line only and leaves  *)
(* the session running.                                                                *)
C31_MergePendingTracksSketchLine ==
    /\ [](mergingDraftOriginalLine => SketchLineOnDraft)
    /\ [][CommitOffDraft =>
              /\ activeFeature' = activeFeature
              /\ coordinates' = coordinates \o Tail(sketchLine[1])
         ]_vars

\* The step starts a session, commits vertices or handles featuresloadend, and a session
\* is running after it.
TipStep ==
    /\ activeFeature' # 0
    /\ \/ sessions' > sessions
       \/ lastOp'.kind = "click" /\ coordinates' # coordinates
       \/ lastOp'.kind = "load" /\ coordinates # << >>

\* The way source after the step, in the order of getFeatures()
WaysAfter ==
    SubSeq(AllWays, 1, waysLoaded')
        \o [i \in 1..Len(wayDrafts') |-> [id |-> "", coords |-> wayDrafts'[i].coords]]

\* The positions in the way source of the lines that hold the tip after the step
HoldTipAfter(ways) ==
    {i \in 1..Len(ways) : ContainsXY(ways[i].coords, GetLastCoordinate(geometry'[activeFeature']))}

\* candidates are the lines of ways at the given positions, in the order of ways.
InOrderOf(candidates, ways, positions) ==
    /\ Len(candidates) = Cardinality(positions)
    /\ \A k \in 1..Len(candidates) :
           \E i \in positions :
               /\ candidates[k] = ways[i]
               /\ Cardinality({j \in positions : j < i}) = k - 1

(* C32: candidate lines follow the tip.  Right after a session start, a commit and a   *)
(* featuresloadend handled during a session, the candidate lines are the lines of the  *)
(* way source whose geometry holds the tip, a vertex or not, in the order of the way   *)
(* source and with their identifiers, and the candidate points are the vertices of     *)
(* those lines one list after the other, repeated vertices kept.                       *)
C32_CandidatesFollowTip ==
    [][TipStep =>
           /\ InOrderOf(candidateLines', WaysAfter, HoldTipAfter(WaysAfter))
           /\ candidatePoints' =
                  Flat([i \in 1..Len(candidateLines') |-> candidateLines'[i].coords])
      ]_vars

\* The tip [1, 0] lies inside the way from [0, 0] to [2, 0], which is a candidate line
\* with its two vertices as candidate points.
C32_Witness ==
    /\ lastOp.kind = "click"
    /\ coordinates # << >> /\ GetLastCoordinate(coordinates) = <<1, 0>>
    /\ \E i \in 1..Len(candidateLines) : candidateLines[i] = AllWays[1]
    /\ \E k \in 1..Len(candidatePoints) : candidatePoints[k] = <<2, 0>>

\* A session started by creation is running: a feature is active, vertices are committed
\* and there is no draft of an original line.
CreationSession == activeFeature # 0 /\ coordinates # << >> /\ draftOriginalLine = None

\* The step leaves a session started by creation running.
InCreationSession == activeFeature' # 0 /\ coordinates' # << >> /\ draftOriginalLine' = None

(* C33: target source membership.  A feature made by a creation is not in the target   *)
(* source while one vertex is committed; source.addFeature is called for it in the     *)
(* commit that first leaves two or more committed vertices, and in no other step; from *)
(* then on it stays in the source; finishing a session with one committed vertex adds  *)
(* nothing.                                                                            *)
C33_TargetSourceMembership ==
    /\ []((CreationSession /\ Len(coordinates) = 1) => activeFeature \notin source)
    /\ []((CreationSession /\ Len(coordinates) > 1) => activeFeature \in source)
    /\ [][/\ source \subseteq source'
          /\ InCreationSession =>
                 added' = IF Len(coordinates) < 2 /\ Len(coordinates') > 1
                          THEN << activeFeature' >> ELSE << >>
          /\ (CreationSession /\ Len(coordinates) = 1 /\ activeFeature' = 0) =>
                 source' = source /\ added' = << >>
         ]_vars

\* A creation has committed a third vertex: the feature is in the target source and this
\* commit has not added it again.
C33_Witness ==
    /\ lastOp.kind = "click"
    /\ CreationSession /\ Len(coordinates) = 3
    /\ activeFeature \in source
    /\ added = << >>

(* C34: the idle state is clean.  In every state without a session (no feature active, *)
(* no vertex committed: at construction and after every finish, whatever pointer moves *)
(* follow) there is no sketch line, there are no candidate lines and no candidate      *)
(* points, no draft of an original line is held and mergingDraftOriginalLine is false. *)
C34_IdleStateIsClean ==
    Idle =>
        /\ sketchLine = None
        /\ candidateLines = << >>
        /\ candidatePoints = << >>
        /\ draftOriginalLine = None
        /\ ~mergingDraftOriginalLine

\* A session that committed a vertex has been finished and the pointer has moved since.
C34_Witness ==
    /\ Idle
    /\ sessions = 1
    /\ lastOp.kind = "move"
    /\ sketchPoint # None
    /\ geometry[1] # InitialTarget /\ Len(geometry[1]) > 1

\* The step ends an edit session in which nothing has been committed since the entry,
\* and commits nothing itself: it is a click on the tip or finishEditing().
EndsUncommittedEdit ==
    /\ EditSession
    /\ coordinates = keptPrefix
    /\ FinishesWithoutMerge

(* C35: an edit session without a commit.  When an edit session ends and nothing has   *)
(* been committed since the entry, the edited feature is left in the target source     *)
(* with the vertices kept at the entry only: the vertices that went to the draft of    *)
(* the original line are not given back, and the draft is dropped.                     *)
C35_UncommittedEditKeepsPrefix ==
    [][EndsUncommittedEdit =>
           /\ activeFeature \in source'
           /\ geometry'[activeFeature] = keptPrefix
           /\ draftOriginalLine' = None
           /\ wayDrafts' = << >>
      ]_vars

\* An edit entered at the first vertex of the polyline has been finished at once: the
\* polyline is left with that vertex alone.
C35_Witness ==
    /\ Idle
    /\ sessions = 1
    /\ 1 \in source
    /\ geometry[1] = << InitialTarget[1] >>

\* C35 as stated: an edit session that ends without a commit leaves the polyline with
\* its vertices from before the edit, the kept prefix followed by the draft's tail.
C35_UncommittedEditRestores ==
    [][EndsUncommittedEdit =>
           geometry'[activeFeature] = keptPrefix \o Tail(draftOriginalLine[1].coords)
      ]_vars

(* C36: the sketch line starts at the tip.  In every state in which vertices are       *)
(* committed and there is a sketch line, the first coordinate of the sketch line is    *)
(* the last committed vertex and the sketch line has at least one more coordinate, so  *)
(* a commit, which drops the first coordinate, drops no new vertex.                    *)
C36_SketchLineStartsAtTip ==
    (coordinates # << >> /\ sketchLine # None) =>
        /\ Len(sketchLine[1]) >= 2
        /\ sketchLine[1][1] = GetLastCoordinate(coordinates)

\* From the tip [2, 1], a vertex of the loop, the pointer has moved to [2, 0], the vertex
\* the loop starts and ends with: the sketch line goes from the tip to it.
C36_Witness ==
    /\ lastOp.kind = "move" /\ lastOp.coordinate = <<2, 0>>
    /\ coordinates # << >> /\ GetLastCoordinate(coordinates) = <<2, 1>>
    /\ candidateLines # << >> /\ candidateLines[1] = AllWays[2]
    /\ sketchLine # None
    /\ sketchLine[1][1] = <<2, 1>>
    /\ GetLastCoordinate(sketchLine[1]) = <<2, 0>>

(* C37: session-state consistency.  In every state a feature is active exactly when    *)
(* vertices are committed, and the geometry of the active feature is then the          *)
(* committed list; also after a click on a polyline of the target source at a          *)
(* coordinate that is none of its vertices.                                            *)
C37_SessionStateConsistency ==
    /\ activeFeature # 0 <=> coordinates # << >>
    /\ activeFeature # 0 => geometry[activeFeature] = coordinates

(* C38: the polylines of the target source stay well-formed.  The target source starts *)
(* with a polyline of three vertices; after any clicks, pointer moves and finishes     *)
(* every feature of the target source has at least two vertices.                       *)
C38_TargetPolylinesWellFormed ==
    \A f \in source : Len(geometry[f]) >= 2

(* C39: deactivate and reactivate.  While the interaction is among the interactions of *)
(* the map and is active, it has that map as its map and its overlay layer and its     *)
(* snap interaction are on the map, also after setActive(false) followed by            *)
(* setActive(true); and while it is inactive no listener of featuresloadend is left on *)
(* the way source.                                                                     *)
C39_ActivationRoundTrip ==
    /\ ("OSMWaySnap" \in mapInteractions /\ active) =>
           /\ map = TheMap
           /\ "overlayLayer" \in mapLayers
           /\ "snapInteraction" \in mapInteractions
    /\ ~active => loadListeners = 0

(* C40: a single fetch in progress.  At any time at most one OSMWays.fetch is in       *)
(* progress, and _busy is set exactly while one is; a loadFeatures call made while the *)
(* source is busy starts no fetch; _busy is false after every fetch that ends,         *)
(* returned or thrown; a fetch that has thrown adds no feature and records no extent   *)
(* as loaded.                                                                          *)
C40_SingleFetchInProgress ==
    /\ [](Len(fetches) <= 1 /\ (busy <=> fetches # << >>))
    /\ [][/\ (sourceOp' = "loadFeatures" /\ busy) => UNCHANGED << fetches, busy >>
          /\ sourceOp' \in {"fetched", "failed"} => ~busy'
          /\ sourceOp' = "failed" => UNCHANGED << osmFeatures, loadedExtents >>
         ]_vars

\* A load has been refused while a fetch was in progress, and the fetch is still the
\* only one.
C40_Witness ==
    /\ sourceOp = "loadFeatures"
    /\ busy /\ Len(fetches) = 1
    /\ osmFeatures # {}
    /\ loadedExtents # {}

====
